---- MODULE Spec2Model ----
(***************************************************************************)
(* Custody ledger and workflow engine of custody-manager.                  *)
(*                                                                         *)
(* The entity store is four tables (kits, custody_events,                  *)
(* approval_requests, maintenance_events); the service functions of        *)
(* app/services are the operations.  Every service function is an operator *)
(* that maps the current tables and its arguments to an outcome record     *)
(* [result, kits, custody_events, approval_requests, maintenance_events];  *)
(* an action applies the outcome of one call.  HTTPException status codes   *)
(* are named by the error taxonomy: 403 Forbidden, 404 NotFound, 400       *)
(* InvalidState / Conflict / InvalidInput (told apart by the raise site).  *)
(* Free-text notes given by callers, parts_replaced, round_count and dates *)
(* are passed through by the code without influencing control flow; only   *)
(* the notes column of a CustodyEvent is kept (the append-only listeners   *)
(* are exercised on it).                                                   *)
(***************************************************************************)
EXTENDS Integers, Sequences, FiniteSets, TLC

\* ---------------------------------------------------------------- bounds
MaxClock == 2

MaxDeepClock == 3

MaxConcClock == 3

MaxWarnClock == 2

MaxDay == 8

MaxListClock == 3

MaxFleetDay == 3

MaxLen == 2

MaxTokens == 2

MaxIV == 2

MaxTime == 1

\* ------------------------------------------------------------- constants
NoneId == 0
NoneStr == "None"

\* a date column that is NULL, a day count that is None
NoneDate == -1
NoneDays == -1

KitCodes == {"K1", "K9"}

Users ==
  { [id |-> 1, name |-> "Ann",  role |-> "admin",     verified_adult |-> FALSE],
    [id |-> 2, name |-> "Art",  role |-> "armorer",   verified_adult |-> FALSE],
    [id |-> 3, name |-> "Cole", role |-> "coach",     verified_adult |-> FALSE],
    [id |-> 4, name |-> "Pat",  role |-> "parent",    verified_adult |-> TRUE],
    [id |-> 5, name |-> "Vic",  role |-> "volunteer", verified_adult |-> FALSE] }

Custodians ==
  { [id |-> NoneId, name |-> "Alice"], [id |-> 5, name |-> "Bob"] }

DenialReasons == {NoneStr, "", "damaged"}

AttestationSignatures == {"", "Pat P."}

KitStatus == {"available", "checked_out", "in_maintenance", "lost"}

CustodyEventType ==
  {"checkout_onprem", "checkout_offsite", "checkin", "transfer", "lost", "found"}

ApprovalStatus == {"pending", "approved", "denied"}

\* ------------------------------------------------------------------ state
VARIABLES kits, custody_events, approval_requests, maintenance_events,
          clock, last, sessions, today, cipher

\* the ids of the rows of kits
KitIds == DOMAIN kits

tables == <<kits, custody_events, approval_requests, maintenance_events>>
vars == <<kits, custody_events, approval_requests, maintenance_events,
          clock, last, sessions, today, cipher>>

Sessions == {1, 2}

\* the None of an Optional[str]; a str is a sequence of code points
NoneText == <<-1>>

\* no string was given to the field cipher
NoCipher ==
  [plaintext |-> NoneText, now |-> 0, drawn |-> {}, tokens |-> <<>>,
   decrypted |-> [of |-> 0, text |-> NoneText]]

IdleSession == [pc |-> "idle"]

\* warnings_service.py 37-48: the warnings dict before any flag is set
NoWarnings ==
  [has_warning |-> FALSE, overdue_return |-> FALSE,
   extended_custody |-> FALSE, overdue_maintenance |-> FALSE,
   days_overdue |-> NoneDays, days_checked_out |-> NoneDays,
   expected_return_date |-> NoneDate, checkout_date |-> NoneDate,
   days_maintenance_overdue |-> NoneDays, next_maintenance_date |-> NoneDate]

NoCall == [op |-> "none", result |-> "none", warnings |-> NoWarnings, listed |-> <<>>]

\* kits as create_kit leaves them: kit k has code "K<k>", is available and
\* has no custodian and no next_maintenance_date
KitRows(ids) ==
  [k \in ids |->
     [id |-> k, code |-> IF k = 1 THEN "K1" ELSE "K2",
      status |-> "available",
      current_custodian_id |-> NoneId,
      current_custodian_name |-> NoneStr,
      next_maintenance_date |-> NoneDate]]

Init ==
  /\ kits = KitRows({1})
  /\ custody_events = <<>>
  /\ approval_requests = <<>>
  /\ maintenance_events = <<>>
  /\ clock = 0
  /\ last = NoCall
  /\ sessions = [s \in Sessions |-> IdleSession]
  /\ today = 1
  /\ cipher = NoCipher

\* ---------------------------------------------------------------- helpers
Indices(seq) == 1..Len(seq)

\* db.query(Kit).filter(Kit.code == kit_code).first()
KitByCode(kit_code) ==
  IF \E k \in KitIds : kits[k].code = kit_code
  THEN CHOOSE k \in KitIds : kits[k].code = kit_code
  ELSE NoneId

Outcome(r, ks, ces, ars, mes) ==
  [result |-> r, kits |-> ks, custody_events |-> ces,
   approval_requests |-> ars, maintenance_events |-> mes]

\* raise HTTPException before anything was assigned or added to the session
Raise(r) ==
  Outcome(r, kits, custody_events, approval_requests, maintenance_events)

\* The unit of work writes an UPDATE that sets the columns whose value differs
\* from the value the row was loaded with; the other columns keep what the
\* store holds.
SetColumns(row, loaded, new) ==
  [f \in DOMAIN row |->
     IF f \in DOMAIN new /\ new[f] # loaded[f] THEN new[f] ELSE row[f]]

\* BaseModel.created_at: a row is stamped with the time of its insertion;
\* created_at orders the rows, created_date is created_at.date().
CreatedDate == today

NewCustodyEvent(event_type, kit_id, initiator_id, initiator_name, custodian_id, custodian_name, location_type, notes) ==
  [id |-> Len(custody_events) + 1, event_type |-> event_type,
   kit_id |-> kit_id,
   initiated_by_id |-> initiator_id, initiated_by_name |-> initiator_name,
   custodian_id |-> custodian_id, custodian_name |-> custodian_name,
   approved_by_id |-> NoneId, approved_by_name |-> NoneStr,
   notes |-> notes, location_type |-> location_type,
   expected_return_date |-> NoneDate,
   created_at |-> clock + 1, created_date |-> CreatedDate]

\* ------------------------------------------------- warnings_service.py
EXTENDED_CUSTODY_WARNING_DAYS == 7

OVERDUE_RETURN_WARNING_DAYS == 0

checkout_event_types == {"checkout_onprem", "checkout_offsite"}

\* lines 56-61: the newest checkout event of the kit, NoneId when there is none
latest_checkout(kit) ==
  LET found == {i \in Indices(custody_events) :
                  /\ custody_events[i].kit_id = kit
                  /\ custody_events[i].event_type \in checkout_event_types} IN
    IF found = {} THEN NoneId
    ELSE CHOOSE i \in found :
           \A j \in found :
             custody_events[j].created_at <= custody_events[i].created_at

\* lines 64-66
checkout_age(warnings, event) ==
  [warnings EXCEPT !.checkout_date = event.created_date,
                   !.days_checked_out = today - event.created_date]

\* the return-date check with today >= expected_return_date
overdue_return_from_due_day(warnings, event) ==
  IF event.expected_return_date = NoneDate THEN warnings
  ELSE LET recorded == [warnings EXCEPT !.expected_return_date =
                                           event.expected_return_date]
           days_overdue == today - event.expected_return_date IN
    IF today >= event.expected_return_date
       /\ days_overdue >= OVERDUE_RETURN_WARNING_DAYS
    THEN [recorded EXCEPT !.overdue_return = TRUE,
                          !.days_overdue = days_overdue,
                          !.has_warning = TRUE]
    ELSE recorded

\* lines 68-83
overdue_return_check(warnings, event) ==
  IF event.expected_return_date = NoneDate THEN warnings
  ELSE LET recorded == [warnings EXCEPT !.expected_return_date =
                                           event.expected_return_date]
           days_overdue == today - event.expected_return_date IN
    IF today > event.expected_return_date
       /\ days_overdue >= OVERDUE_RETURN_WARNING_DAYS
    THEN [recorded EXCEPT !.overdue_return = TRUE,
                          !.days_overdue = days_overdue,
                          !.has_warning = TRUE]
    ELSE recorded

\* the threshold check with days_checked_out > EXTENDED_CUSTODY_WARNING_DAYS
extended_custody_after_threshold(warnings) ==
  IF warnings.days_checked_out > EXTENDED_CUSTODY_WARNING_DAYS
  THEN [warnings EXCEPT !.extended_custody = TRUE, !.has_warning = TRUE]
  ELSE warnings

\* lines 85-88
extended_custody_check(warnings) ==
  IF warnings.days_checked_out >= EXTENDED_CUSTODY_WARNING_DAYS
  THEN [warnings EXCEPT !.extended_custody = TRUE, !.has_warning = TRUE]
  ELSE warnings

\* the threshold of lines 97: the constant is imported from app.constants,
\* which does not define it; a date in the past is overdue
OVERDUE_MAINTENANCE_WARNING_DAYS == 0

\* lines 54-88: the custody warnings of a checked-out kit
custody_warnings(kit) ==
  IF kits[kit].status # "checked_out" THEN NoWarnings
  ELSE IF latest_checkout(kit) = NoneId THEN NoWarnings
  ELSE LET event == custody_events[latest_checkout(kit)] IN
    extended_custody_check(
      overdue_return_check(checkout_age(NoWarnings, event), event))

\* lines 90-100: the maintenance warning of a kit that is not in maintenance
maintenance_check(warnings, kit) ==
  IF kits[kit].next_maintenance_date = NoneDate
     \/ kits[kit].status = "in_maintenance"
  THEN warnings
  ELSE LET recorded == [warnings EXCEPT !.next_maintenance_date =
                                           kits[kit].next_maintenance_date]
           days_maintenance_overdue ==
             today - kits[kit].next_maintenance_date IN
    IF today > kits[kit].next_maintenance_date
       /\ days_maintenance_overdue >= OVERDUE_MAINTENANCE_WARNING_DAYS
    THEN [recorded EXCEPT !.overdue_maintenance = TRUE,
                          !.days_maintenance_overdue = days_maintenance_overdue,
                          !.has_warning = TRUE]
    ELSE recorded

\* lines 19-102, with date.today() = today
calculate_kit_warnings(kit) == maintenance_check(custody_warnings(kit), kit)

\* lines 122-125: the checked-out kits, in the order of their ids
checked_out_kits ==
  SelectSeq([k \in 1..Cardinality(KitIds) |-> k],
            LAMBDA k : kits[k].status = "checked_out")

\* lines 105-139
get_all_kits_with_warnings ==
  LET warned == SelectSeq(checked_out_kits,
                          LAMBDA k : calculate_kit_warnings(k).has_warning) IN
    [i \in DOMAIN warned |->
       [kit_id |-> warned[i], kit_code |-> kits[warned[i]].code,
        custodian_name |-> kits[warned[i]].current_custodian_name,
        warnings |-> calculate_kit_warnings(warned[i])]]

\* ------------------------------------------------- custody_service.py
\* the role list without admin
checkout_roles_without_admin == {"coach", "armorer"}

checkout_allowed_roles == {"coach", "armorer", "admin"}

\* lines 65-87: the event, the assignments to the loaded kit and db.commit()
checkout_onprem_writes(kit, loaded, custodian_name, initiated_by_user, custodian_id, expected_return_date) ==
  Outcome("ok",
    [kits EXCEPT ![kit] =
       SetColumns(@, loaded,
                  [status |-> "checked_out",
                   current_custodian_id |-> custodian_id,
                   current_custodian_name |-> custodian_name])],
    Append(custody_events,
           [NewCustodyEvent("checkout_onprem", kit,
                            initiated_by_user.id, initiated_by_user.name,
                            custodian_id, custodian_name,
                            "on_premises", NoneStr)
              EXCEPT !.expected_return_date = expected_return_date]),
    approval_requests, maintenance_events)

\* a checkout that looks the kit up before it tests the caller's role
checkout_kit_onprem_kit_first(kit_code, custodian_name, initiated_by_user, custodian_id, expected_return_date) ==
  LET kit == KitByCode(kit_code) IN
    IF kit = NoneId THEN Raise("NotFound")
    ELSE IF initiated_by_user.role \notin checkout_allowed_roles
    THEN Raise("Forbidden")
    ELSE IF kits[kit].status # "available" THEN Raise("InvalidState")
    ELSE checkout_onprem_writes(kit, kits[kit], custodian_name,
                                initiated_by_user, custodian_id,
                                expected_return_date)

checkout_kit_onprem(kit_code, custodian_name, initiated_by_user, custodian_id, expected_return_date) ==
  IF initiated_by_user.role \notin checkout_allowed_roles
  THEN Raise("Forbidden")
  ELSE LET kit == KitByCode(kit_code) IN
    IF kit = NoneId THEN Raise("NotFound")
    ELSE IF kits[kit].status # "available" THEN Raise("InvalidState")
    ELSE checkout_onprem_writes(kit, kits[kit], custodian_name,
                                initiated_by_user, custodian_id,
                                expected_return_date)

transfer_allowed_roles == {"coach", "armorer", "admin"}

\* transfer without the check of kit.status
transfer_kit_custody_any_status(kit_code, new_custodian_name, initiated_by_user, new_custodian_id) ==
  IF initiated_by_user.role \notin transfer_allowed_roles
  THEN Raise("Forbidden")
  ELSE LET kit == KitByCode(kit_code) IN
    IF kit = NoneId THEN Raise("NotFound")
    ELSE Outcome("ok",
           [kits EXCEPT ![kit].current_custodian_id = new_custodian_id,
                        ![kit].current_custodian_name = new_custodian_name],
           Append(custody_events,
                  NewCustodyEvent("transfer", kit,
                                  initiated_by_user.id, initiated_by_user.name,
                                  new_custodian_id, new_custodian_name,
                                  "on_premises", NoneStr)),
           approval_requests, maintenance_events)

\* a transfer that refuses a kit that carries a warning
transfer_kit_custody_unless_warned(kit_code, new_custodian_name, initiated_by_user, new_custodian_id) ==
  IF initiated_by_user.role \notin transfer_allowed_roles
  THEN Raise("Forbidden")
  ELSE LET kit == KitByCode(kit_code) IN
    IF kit = NoneId THEN Raise("NotFound")
    ELSE IF kits[kit].status # "checked_out" THEN Raise("InvalidState")
    ELSE IF calculate_kit_warnings(kit).has_warning THEN Raise("InvalidState")
    ELSE Outcome("ok",
           [kits EXCEPT ![kit].current_custodian_id = new_custodian_id,
                        ![kit].current_custodian_name = new_custodian_name],
           Append(custody_events,
                  NewCustodyEvent("transfer", kit,
                                  initiated_by_user.id, initiated_by_user.name,
                                  new_custodian_id, new_custodian_name,
                                  "on_premises", NoneStr)),
           approval_requests, maintenance_events)

transfer_kit_custody(kit_code, new_custodian_name, initiated_by_user, new_custodian_id) ==
  IF initiated_by_user.role \notin transfer_allowed_roles
  THEN Raise("Forbidden")
  ELSE LET kit == KitByCode(kit_code) IN
    IF kit = NoneId THEN Raise("NotFound")
    ELSE IF kits[kit].status # "checked_out" THEN Raise("InvalidState")
    ELSE Outcome("ok",
           [kits EXCEPT ![kit].current_custodian_id = new_custodian_id,
                        ![kit].current_custodian_name = new_custodian_name],
           Append(custody_events,
                  NewCustodyEvent("transfer", kit,
                                  initiated_by_user.id, initiated_by_user.name,
                                  new_custodian_id, new_custodian_name,
                                  "on_premises", NoneStr)),
           approval_requests, maintenance_events)

\* the role list with coach added
lost_found_roles_with_coach == {"armorer", "admin", "coach"}

lost_found_allowed_roles == {"armorer", "admin"}

\* kit.current_custodian_name or "Unknown"
NameOrUnknown(name) == IF name = NoneStr THEN "Unknown" ELSE name

\* a report that clears the custodian of the kit, as report_kit_found does
report_kit_lost_clearing_custodian(kit_code, initiated_by_user) ==
  IF initiated_by_user.role \notin lost_found_allowed_roles
  THEN Raise("Forbidden")
  ELSE LET kit == KitByCode(kit_code) IN
    IF kit = NoneId THEN Raise("NotFound")
    ELSE IF kits[kit].status = "lost" THEN Raise("InvalidState")
    ELSE Outcome("ok",
           [kits EXCEPT ![kit].status = "lost",
                        ![kit].current_custodian_id = NoneId,
                        ![kit].current_custodian_name = NoneStr],
           Append(custody_events,
                  NewCustodyEvent("lost", kit,
                                  initiated_by_user.id, initiated_by_user.name,
                                  kits[kit].current_custodian_id,
                                  NameOrUnknown(kits[kit].current_custodian_name),
                                  "unknown", NoneStr)),
           approval_requests, maintenance_events)

report_kit_lost(kit_code, initiated_by_user) ==
  IF initiated_by_user.role \notin lost_found_allowed_roles
  THEN Raise("Forbidden")
  ELSE LET kit == KitByCode(kit_code) IN
    IF kit = NoneId THEN Raise("NotFound")
    ELSE IF kits[kit].status = "lost" THEN Raise("InvalidState")
    ELSE Outcome("ok",
           [kits EXCEPT ![kit].status = "lost"],
           Append(custody_events,
                  NewCustodyEvent("lost", kit,
                                  initiated_by_user.id, initiated_by_user.name,
                                  kits[kit].current_custodian_id,
                                  NameOrUnknown(kits[kit].current_custodian_name),
                                  "unknown", NoneStr)),
           approval_requests, maintenance_events)

\* a report that sets the kit available and keeps its custodian
report_kit_found_keeping_custodian(kit_code, initiated_by_user) ==
  IF initiated_by_user.role \notin lost_found_allowed_roles
  THEN Raise("Forbidden")
  ELSE LET kit == KitByCode(kit_code) IN
    IF kit = NoneId THEN Raise("NotFound")
    ELSE IF kits[kit].status # "lost" THEN Raise("InvalidState")
    ELSE Outcome("ok",
           [kits EXCEPT ![kit].status = "available"],
           Append(custody_events,
                  NewCustodyEvent("found", kit,
                                  initiated_by_user.id, initiated_by_user.name,
                                  NoneId, "System", "on_premises", NoneStr)),
           approval_requests, maintenance_events)

\* a report that hands the found kit back as checked out
report_kit_found_back_to_custodian(kit_code, initiated_by_user) ==
  IF initiated_by_user.role \notin lost_found_allowed_roles
  THEN Raise("Forbidden")
  ELSE LET kit == KitByCode(kit_code) IN
    IF kit = NoneId THEN Raise("NotFound")
    ELSE IF kits[kit].status # "lost" THEN Raise("InvalidState")
    ELSE Outcome("ok",
           [kits EXCEPT ![kit].status = "checked_out"],
           Append(custody_events,
                  NewCustodyEvent("found", kit,
                                  initiated_by_user.id, initiated_by_user.name,
                                  NoneId, "System", "on_premises", NoneStr)),
           approval_requests, maintenance_events)

report_kit_found(kit_code, initiated_by_user) ==
  IF initiated_by_user.role \notin lost_found_allowed_roles
  THEN Raise("Forbidden")
  ELSE LET kit == KitByCode(kit_code) IN
    IF kit = NoneId THEN Raise("NotFound")
    ELSE IF kits[kit].status # "lost" THEN Raise("InvalidState")
    ELSE Outcome("ok",
           [kits EXCEPT ![kit].status = "available",
                        ![kit].current_custodian_id = NoneId,
                        ![kit].current_custodian_name = NoneStr],
           Append(custody_events,
                  NewCustodyEvent("found", kit,
                                  initiated_by_user.id, initiated_by_user.name,
                                  NoneId, "System", "on_premises", NoneStr)),
           approval_requests, maintenance_events)

\* ------------------------------------------------ approval_service.py
\* not denial_reason: None and the empty string
Falsy(s) == s \in {NoneStr, ""}

PendingRequests(kit) ==
  {i \in Indices(approval_requests) :
      /\ approval_requests[i].kit_id = kit
      /\ approval_requests[i].status = "pending"}

\* a creation that already names the proposed custodian on the kit
create_request_writes_on_kit(kit, custodian_name, requester_user, custodian_id) ==
  Outcome("ok",
    [kits EXCEPT ![kit].current_custodian_id = custodian_id,
                 ![kit].current_custodian_name = custodian_name],
    custody_events,
    Append(approval_requests,
           [id |-> Len(approval_requests) + 1, kit_id |-> kit,
            requester_id |-> requester_user.id,
            requester_name |-> requester_user.name,
            custodian_id |-> custodian_id,
            custodian_name |-> custodian_name,
            status |-> "pending",
            approver_id |-> NoneId, approver_name |-> NoneStr,
            approver_role |-> NoneStr, denial_reason |-> NoneStr,
            attestation_text |-> NoneStr,
            attestation_signature |-> NoneStr,
            attestation_timestamp |-> NoneId,
            created_at |-> clock + 1]),
    maintenance_events)

\* lines 74-88: the new ApprovalRequest and db.commit().  The constructor is
\* given no attestation_text, attestation_signature or attestation_timestamp:
\* the nullable columns stay NULL.
create_request_writes(kit, custodian_name, requester_user, custodian_id) ==
  Outcome("ok", kits, custody_events,
    Append(approval_requests,
           [id |-> Len(approval_requests) + 1, kit_id |-> kit,
            requester_id |-> requester_user.id,
            requester_name |-> requester_user.name,
            custodian_id |-> custodian_id,
            custodian_name |-> custodian_name,
            status |-> "pending",
            approver_id |-> NoneId, approver_name |-> NoneStr,
            approver_role |-> NoneStr, denial_reason |-> NoneStr,
            attestation_text |-> NoneStr,
            attestation_signature |-> NoneStr,
            attestation_timestamp |-> NoneId,
            created_at |-> clock + 1]),
    maintenance_events)

\* request creation without the query for an existing pending request
create_offsite_checkout_request_unchecked(kit_code, custodian_name, requester_user, custodian_id) ==
  IF ~requester_user.verified_adult THEN Raise("Forbidden")
  ELSE LET kit == KitByCode(kit_code) IN
    IF kit = NoneId THEN Raise("NotFound")
    ELSE IF kits[kit].status # "available" THEN Raise("InvalidState")
    ELSE create_request_writes(kit, custodian_name, requester_user,
                               custodian_id)

\* request creation without the test of requester_user.verified_adult
create_offsite_checkout_request_unverified(kit_code, custodian_name, requester_user, custodian_id) ==
  LET kit == KitByCode(kit_code) IN
    IF kit = NoneId THEN Raise("NotFound")
    ELSE IF kits[kit].status # "available" THEN Raise("InvalidState")
    ELSE IF PendingRequests(kit) # {} THEN Raise("Conflict")
    ELSE create_request_writes(kit, custodian_name, requester_user,
                               custodian_id)

create_offsite_checkout_request(kit_code, custodian_name, requester_user, custodian_id) ==
  IF ~requester_user.verified_adult THEN Raise("Forbidden")
  ELSE LET kit == KitByCode(kit_code) IN
    IF kit = NoneId THEN Raise("NotFound")
    ELSE IF kits[kit].status # "available" THEN Raise("InvalidState")
    ELSE IF PendingRequests(kit) # {} THEN Raise("Conflict")
    ELSE create_request_writes(kit, custodian_name, requester_user,
                               custodian_id)

approval_allowed_roles == {"armorer", "coach", "admin"}

\* an approval that writes the request and the event and leaves the kit
approve_writes_without_kit(approval_request_id, req, kit, loaded, approver_user) ==
  Outcome("ok", kits,
    Append(custody_events,
           NewCustodyEvent("checkout_offsite", kit,
                           req.requester_id, req.requester_name,
                           req.custodian_id, req.custodian_name,
                           "off_site", "Approved by")),
    [approval_requests EXCEPT ![approval_request_id] =
       SetColumns(@, req,
                  [status |-> "approved",
                   approver_id |-> approver_user.id,
                   approver_name |-> approver_user.name,
                   approver_role |-> approver_user.role])],
    maintenance_events)

\* an approval whose event names the requester as the custodian
approve_writes_for_requester(approval_request_id, req, kit, loaded, approver_user) ==
  Outcome("ok",
    [kits EXCEPT ![kit] =
       SetColumns(@, loaded,
                  [status |-> "checked_out",
                   current_custodian_id |-> req.custodian_id,
                   current_custodian_name |-> req.custodian_name])],
    Append(custody_events,
           NewCustodyEvent("checkout_offsite", kit,
                           req.requester_id, req.requester_name,
                           req.requester_id, req.requester_name,
                           "off_site", "Approved by")),
    [approval_requests EXCEPT ![approval_request_id] =
       SetColumns(@, req,
                  [status |-> "approved",
                   approver_id |-> approver_user.id,
                   approver_name |-> approver_user.name,
                   approver_role |-> approver_user.role])],
    maintenance_events)

\* lines 165-188 and 204: approve the loaded request, add the off-site
\* checkout event, assign the loaded kit, db.commit()
approve_writes(approval_request_id, req, kit, loaded, approver_user) ==
  Outcome("ok",
    [kits EXCEPT ![kit] =
       SetColumns(@, loaded,
                  [status |-> "checked_out",
                   current_custodian_id |-> req.custodian_id,
                   current_custodian_name |-> req.custodian_name])],
    Append(custody_events,
           NewCustodyEvent("checkout_offsite", kit,
                           req.requester_id, req.requester_name,
                           req.custodian_id, req.custodian_name,
                           "off_site", "Approved by")),
    [approval_requests EXCEPT ![approval_request_id] =
       SetColumns(@, req,
                  [status |-> "approved",
                   approver_id |-> approver_user.id,
                   approver_name |-> approver_user.name,
                   approver_role |-> approver_user.role])],
    maintenance_events)

\* a denial that does not store the reason
deny_writes_without_reason(approval_request_id, req, approver_user, denial_reason) ==
  Outcome("ok", kits, custody_events,
    [approval_requests EXCEPT ![approval_request_id] =
       SetColumns(@, req,
                  [status |-> "denied",
                   approver_id |-> approver_user.id,
                   approver_name |-> approver_user.name,
                   approver_role |-> approver_user.role])],
    maintenance_events)

\* lines 197-204: deny the loaded request, db.commit()
deny_writes(approval_request_id, req, approver_user, denial_reason) ==
  Outcome("ok", kits, custody_events,
    [approval_requests EXCEPT ![approval_request_id] =
       SetColumns(@, req,
                  [status |-> "denied",
                   approver_id |-> approver_user.id,
                   approver_name |-> approver_user.name,
                   approver_role |-> approver_user.role,
                   denial_reason |-> denial_reason])],
    maintenance_events)

\* a decision that marks the request denied before it looks at denial_reason
\* and commits what it assigned when it raises
approve_or_deny_write_first(approval_request_id, approver_user, approve, denial_reason) ==
  IF approver_user.role \notin approval_allowed_roles
  THEN Raise("Forbidden")
  ELSE IF approval_request_id \notin Indices(approval_requests)
  THEN Raise("NotFound")
  ELSE LET req == approval_requests[approval_request_id]
           kit == req.kit_id IN
    IF req.status # "pending" THEN Raise("Conflict")
    ELSE IF kit \notin KitIds THEN Raise("NotFound")
    ELSE IF approve
    THEN IF kits[kit].status # "available" THEN Raise("InvalidState")
         ELSE approve_writes(approval_request_id, req, kit, kits[kit],
                             approver_user)
    ELSE LET denied == deny_writes(approval_request_id, req, approver_user,
                                   denial_reason) IN
         IF Falsy(denial_reason)
         THEN [denied EXCEPT !.result = "InvalidInput"]
         ELSE denied

\* a decision that denies whether or not a reason is given
approve_or_deny_without_reason_check(approval_request_id, approver_user, approve, denial_reason) ==
  IF approver_user.role \notin approval_allowed_roles
  THEN Raise("Forbidden")
  ELSE IF approval_request_id \notin Indices(approval_requests)
  THEN Raise("NotFound")
  ELSE LET req == approval_requests[approval_request_id]
           kit == req.kit_id IN
    IF req.status # "pending" THEN Raise("Conflict")
    ELSE IF kit \notin KitIds THEN Raise("NotFound")
    ELSE IF approve
    THEN IF kits[kit].status # "available" THEN Raise("InvalidState")
         ELSE approve_writes(approval_request_id, req, kit, kits[kit],
                             approver_user)
    ELSE deny_writes(approval_request_id, req, approver_user, denial_reason)

\* a decision that does not look at the status of the request
approve_or_deny_any_status(approval_request_id, approver_user, approve, denial_reason) ==
  IF approver_user.role \notin approval_allowed_roles
  THEN Raise("Forbidden")
  ELSE IF approval_request_id \notin Indices(approval_requests)
  THEN Raise("NotFound")
  ELSE LET req == approval_requests[approval_request_id]
           kit == req.kit_id IN
    IF kit \notin KitIds THEN Raise("NotFound")
    ELSE IF approve
    THEN IF kits[kit].status # "available" THEN Raise("InvalidState")
         ELSE approve_writes(approval_request_id, req, kit, kits[kit],
                             approver_user)
    ELSE IF Falsy(denial_reason) THEN Raise("InvalidInput")
         ELSE deny_writes(approval_request_id, req, approver_user,
                          denial_reason)

\* a decision that approves without looking at kit.status again
approve_or_deny_without_recheck(approval_request_id, approver_user, approve, denial_reason) ==
  IF approver_user.role \notin approval_allowed_roles
  THEN Raise("Forbidden")
  ELSE IF approval_request_id \notin Indices(approval_requests)
  THEN Raise("NotFound")
  ELSE LET req == approval_requests[approval_request_id]
           kit == req.kit_id IN
    IF req.status # "pending" THEN Raise("Conflict")
    ELSE IF kit \notin KitIds THEN Raise("NotFound")
    ELSE IF approve
    THEN approve_writes(approval_request_id, req, kit, kits[kit],
                        approver_user)
    ELSE IF Falsy(denial_reason) THEN Raise("InvalidInput")
         ELSE deny_writes(approval_request_id, req, approver_user,
                          denial_reason)

\* a decision that needs an available kit for a denial as well
approve_or_deny_available_only(approval_request_id, approver_user, approve, denial_reason) ==
  IF approver_user.role \notin approval_allowed_roles
  THEN Raise("Forbidden")
  ELSE IF approval_request_id \notin Indices(approval_requests)
  THEN Raise("NotFound")
  ELSE LET req == approval_requests[approval_request_id]
           kit == req.kit_id IN
    IF req.status # "pending" THEN Raise("Conflict")
    ELSE IF kit \notin KitIds THEN Raise("NotFound")
    ELSE IF kits[kit].status # "available" THEN Raise("InvalidState")
    ELSE IF approve
    THEN approve_writes(approval_request_id, req, kit, kits[kit],
                        approver_user)
    ELSE IF Falsy(denial_reason) THEN Raise("InvalidInput")
         ELSE deny_writes(approval_request_id, req, approver_user,
                          denial_reason)

approve_or_deny_offsite_request(approval_request_id, approver_user, approve, denial_reason) ==
  IF approver_user.role \notin approval_allowed_roles
  THEN Raise("Forbidden")
  ELSE IF approval_request_id \notin Indices(approval_requests)
  THEN Raise("NotFound")
  ELSE LET req == approval_requests[approval_request_id]
           kit == req.kit_id IN
    IF req.status # "pending" THEN Raise("Conflict")
    ELSE IF kit \notin KitIds THEN Raise("NotFound")
    ELSE IF approve
    THEN IF kits[kit].status # "available" THEN Raise("InvalidState")
         ELSE approve_writes(approval_request_id, req, kit, kits[kit],
                             approver_user)
    ELSE IF Falsy(denial_reason) THEN Raise("InvalidInput")
         ELSE deny_writes(approval_request_id, req, approver_user,
                          denial_reason)

\* lines 214-244: the list is read, nothing is written
\* the query ordered by created_at without desc()
pending_requests_oldest_first ==
  SortSeq(SelectSeq(approval_requests, LAMBDA r : r.status = "pending"),
          LAMBDA a, b : a.created_at < b.created_at)

\* lines 240-242: filter(status == pending).order_by(created_at.desc()).all()
pending_requests ==
  SortSeq(SelectSeq(approval_requests, LAMBDA r : r.status = "pending"),
          LAMBDA a, b : a.created_at > b.created_at)

\* returns pending_requests when it does not raise
get_pending_approvals(approver_user) ==
  IF approver_user.role \notin approval_allowed_roles
  THEN Raise("Forbidden")
  ELSE Outcome("ok", kits, custody_events, approval_requests,
               maintenance_events)

\* ------------------------------------------ api/v1/endpoints/custody.py
\* POST /offsite-request calls create_offsite_checkout_request with the
\* keywords attestation_signature, attestation_accepted, request_ip and
\* expected_return_date.  The function has no such parameters: the call
\* raises TypeError before the body of the function runs, whatever kit_code,
\* custodian and notes the request carries.
request_offsite_checkout(current_user, attestation_signature, attestation_accepted) ==
  Raise("TypeError")

\* --------------------------------------------- maintenance_service.py
maintenance_allowed_roles == {"armorer", "admin"}

\* maintenance opened whatever the status of the kit
open_maintenance_any_status(kit_code, opened_by_user) ==
  IF opened_by_user.role \notin maintenance_allowed_roles
  THEN Raise("Forbidden")
  ELSE LET kit == KitByCode(kit_code) IN
    IF kit = NoneId THEN Raise("NotFound")
    ELSE Outcome("ok",
           [kits EXCEPT ![kit].status = "in_maintenance"],
           custody_events, approval_requests,
           Append(maintenance_events,
                  [id |-> Len(maintenance_events) + 1, kit_id |-> kit,
                   opened_by_id |-> opened_by_user.id,
                   opened_by_name |-> opened_by_user.name,
                   closed_by_id |-> NoneId, closed_by_name |-> NoneStr,
                   is_open |-> TRUE, created_at |-> clock + 1]))

\* open_maintenance that sets the status and adds no MaintenanceEvent
open_maintenance_without_event(kit_code, opened_by_user) ==
  IF opened_by_user.role \notin maintenance_allowed_roles
  THEN Raise("Forbidden")
  ELSE LET kit == KitByCode(kit_code) IN
    IF kit = NoneId THEN Raise("NotFound")
    ELSE IF kits[kit].status = "in_maintenance" THEN Raise("InvalidState")
    ELSE Outcome("ok",
           [kits EXCEPT ![kit].status = "in_maintenance"],
           custody_events, approval_requests, maintenance_events)

open_maintenance(kit_code, opened_by_user) ==
  IF opened_by_user.role \notin maintenance_allowed_roles
  THEN Raise("Forbidden")
  ELSE LET kit == KitByCode(kit_code) IN
    IF kit = NoneId THEN Raise("NotFound")
    ELSE IF kits[kit].status = "in_maintenance" THEN Raise("InvalidState")
    ELSE Outcome("ok",
           [kits EXCEPT ![kit].status = "in_maintenance"],
           custody_events, approval_requests,
           Append(maintenance_events,
                  [id |-> Len(maintenance_events) + 1, kit_id |-> kit,
                   opened_by_id |-> opened_by_user.id,
                   opened_by_name |-> opened_by_user.name,
                   closed_by_id |-> NoneId, closed_by_name |-> NoneStr,
                   is_open |-> TRUE, created_at |-> clock + 1]))

OpenEvents(kit) ==
  {i \in Indices(maintenance_events) :
      /\ maintenance_events[i].kit_id = kit
      /\ maintenance_events[i].is_open}

\* a close that sets the kit available and keeps its custodian
close_maintenance_keeping_custodian(kit_code, closed_by_user, first) ==
  IF closed_by_user.role \notin maintenance_allowed_roles
  THEN Raise("Forbidden")
  ELSE LET kit == KitByCode(kit_code) IN
    IF kit = NoneId THEN Raise("NotFound")
    ELSE IF kits[kit].status # "in_maintenance" THEN Raise("InvalidState")
    ELSE IF OpenEvents(kit) = {} THEN Raise("Inconsistent")
    ELSE LET open_event == IF first \in OpenEvents(kit) THEN first
                           ELSE CHOOSE i \in OpenEvents(kit) : TRUE IN
         Outcome("ok",
           [kits EXCEPT ![kit].status = "available"],
           custody_events, approval_requests,
           [maintenance_events EXCEPT
              ![open_event].closed_by_id = closed_by_user.id,
              ![open_event].closed_by_name = closed_by_user.name,
              ![open_event].is_open = FALSE])

\* The query for the open event has no ORDER BY: .first() may return any
\* open row of the kit; first is the row the store returns.
close_maintenance(kit_code, closed_by_user, first) ==
  IF closed_by_user.role \notin maintenance_allowed_roles
  THEN Raise("Forbidden")
  ELSE LET kit == KitByCode(kit_code) IN
    IF kit = NoneId THEN Raise("NotFound")
    ELSE IF kits[kit].status # "in_maintenance" THEN Raise("InvalidState")
    ELSE IF OpenEvents(kit) = {} THEN Raise("Inconsistent")
    ELSE LET open_event == IF first \in OpenEvents(kit) THEN first
                           ELSE CHOOSE i \in OpenEvents(kit) : TRUE IN
         Outcome("ok",
           [kits EXCEPT ![kit].status = "available",
                        ![kit].current_custodian_id = NoneId,
                        ![kit].current_custodian_name = NoneStr],
           custody_events, approval_requests,
           [maintenance_events EXCEPT
              ![open_event].closed_by_id = closed_by_user.id,
              ![open_event].closed_by_name = closed_by_user.name,
              ![open_event].is_open = FALSE])

\* ------------------------------------------ models/custody_event.py
\* before_update / before_delete listeners: TRUE means the listener raises
\* ValueError and the flush is abandoned.
\* a listener that returns without raising
prevent_custody_event_update_silent(target) == FALSE

prevent_custody_event_update(target) == TRUE

prevent_custody_event_delete(target) == TRUE

RemoveAt(seq, i) == SubSeq(seq, 1, i - 1) \o SubSeq(seq, i + 1, Len(seq))

\* ---------------------------------------------------------------- actions
\* last is the response to the most recent call: the operation and its result.
Call(op, result) == [op |-> op, result |-> result, warnings |-> NoWarnings, listed |-> <<>>]

\* db.commit() of one request: the outcome replaces the tables; a row that
\* was inserted took the next created_at.
Commit(out) ==
  /\ kits' = out.kits
  /\ custody_events' = out.custody_events
  /\ approval_requests' = out.approval_requests
  /\ maintenance_events' = out.maintenance_events
  /\ clock' = IF \/ Len(out.custody_events) # Len(custody_events)
                 \/ Len(out.approval_requests) # Len(approval_requests)
                 \/ Len(out.maintenance_events) # Len(maintenance_events)
              THEN clock + 1 ELSE clock
  /\ UNCHANGED <<sessions, today, cipher>>

CheckoutUntilCall(u, code, c, expected_return_date) ==
  LET out == checkout_kit_onprem(code, c.name, u, c.id, expected_return_date) IN
    /\ Commit(out)
    /\ last' = Call("checkout_onprem", out.result)

\* a checkout request without expected_return_date
CheckoutCall(u, code, c) == CheckoutUntilCall(u, code, c, NoneDate)

TransferCall(u, code, c) ==
  LET out == transfer_kit_custody(code, c.name, u, c.id) IN
    /\ Commit(out)
    /\ last' = Call("transfer", out.result)

ReportLostCall(u, code) ==
  LET out == report_kit_lost(code, u) IN
    /\ Commit(out)
    /\ last' = Call("report_lost", out.result)

ReportFoundCall(u, code) ==
  LET out == report_kit_found(code, u) IN
    /\ Commit(out)
    /\ last' = Call("report_found", out.result)

CreateOffsiteRequestCall(u, code, c) ==
  LET out == create_offsite_checkout_request(code, c.name, u, c.id) IN
    /\ Commit(out)
    /\ last' = Call("create_offsite_request", out.result)

DecideCall(u, rid, approve, reason) ==
  LET out == approve_or_deny_offsite_request(rid, u, approve, reason) IN
    /\ Commit(out)
    /\ last' = Call(IF approve THEN "approve" ELSE "deny", out.result)

ListPendingCall(u) ==
  LET out == get_pending_approvals(u) IN
    /\ Commit(out)
    /\ last' = [Call("list_pending", out.result) EXCEPT
                  !.listed = IF out.result = "ok" THEN pending_requests
                             ELSE <<>>]

RequestOffsiteCheckoutCall(u, signature, accepted) ==
  LET out == request_offsite_checkout(u, signature, accepted) IN
    /\ Commit(out)
    /\ last' = Call("request_offsite_checkout", out.result)

OpenMaintenanceCall(u, code) ==
  LET out == open_maintenance(code, u) IN
    /\ Commit(out)
    /\ last' = Call("open_maintenance", out.result)

\* the rows the open-event query of close_maintenance may return first
FirstChoices(code) ==
  IF KitByCode(code) # NoneId /\ OpenEvents(KitByCode(code)) # {}
  THEN OpenEvents(KitByCode(code)) ELSE {NoneId}

CloseMaintenanceCall(u, code, first) ==
  LET out == close_maintenance(code, u, first) IN
    /\ Commit(out)
    /\ last' = Call("close_maintenance", out.result)

\* Calls by the users of US; calls that may insert a row are made while
\* clock < bound.
CheckoutBy(US, bound) ==
  /\ clock < bound
  /\ \E u \in US, code \in KitCodes, c \in Custodians : CheckoutCall(u, code, c)

TransferBy(US, bound) ==
  /\ clock < bound
  /\ \E u \in US, code \in KitCodes, c \in Custodians : TransferCall(u, code, c)

ReportLostBy(US, bound) ==
  /\ clock < bound
  /\ \E u \in US, code \in KitCodes : ReportLostCall(u, code)

ReportFoundBy(US, bound) ==
  /\ clock < bound
  /\ \E u \in US, code \in KitCodes : ReportFoundCall(u, code)

CreateOffsiteRequestBy(US, bound) ==
  /\ clock < bound
  /\ \E u \in US, code \in KitCodes, c \in Custodians :
       CreateOffsiteRequestCall(u, code, c)

DecideBy(US, bound) ==
  \E u \in US, rid \in 1..(Len(approval_requests) + 1),
     approve \in BOOLEAN, reason \in DenialReasons :
    /\ approve => clock < bound
    /\ DecideCall(u, rid, approve, reason)

ListPendingBy(US) ==
  \E u \in US : ListPendingCall(u)

RequestOffsiteCheckoutBy(US) ==
  \E u \in US, signature \in AttestationSignatures, accepted \in BOOLEAN :
    RequestOffsiteCheckoutCall(u, signature, accepted)

OpenMaintenanceBy(US, bound) ==
  /\ clock < bound
  /\ \E u \in US, code \in KitCodes : OpenMaintenanceCall(u, code)

CloseMaintenanceBy(US) ==
  \E u \in US, code \in KitCodes :
    \E first \in FirstChoices(code) : CloseMaintenanceCall(u, code, first)

\* event.notes = "Modified notes"; db.commit()
UpdateCustodyEvent ==
  \E i \in Indices(custody_events) :
    /\ custody_events[i].notes # "Modified notes"
    /\ IF prevent_custody_event_update(custody_events[i])
       THEN /\ UNCHANGED custody_events
            /\ last' = Call("update_event", "ValueError")
       ELSE /\ custody_events' =
                 [custody_events EXCEPT ![i].notes = "Modified notes"]
            /\ last' = Call("update_event", "ok")
    /\ UNCHANGED <<kits, approval_requests, maintenance_events, clock, sessions,
                   today, cipher>>

\* db.delete(event); db.commit()
DeleteCustodyEvent ==
  \E i \in Indices(custody_events) :
    /\ IF prevent_custody_event_delete(custody_events[i])
       THEN /\ UNCHANGED custody_events
            /\ last' = Call("delete_event", "ValueError")
       ELSE /\ custody_events' = RemoveAt(custody_events, i)
            /\ last' = Call("delete_event", "ok")
    /\ UNCHANGED <<kits, approval_requests, maintenance_events, clock, sessions,
                   today, cipher>>

\* ------------------------------------------------- specification Spec
\* Every user calls every operation.
Checkout == CheckoutBy(Users, MaxClock)

Transfer == TransferBy(Users, MaxClock)

ReportLost == ReportLostBy(Users, MaxClock)

ReportFound == ReportFoundBy(Users, MaxClock)

CreateOffsiteRequest == CreateOffsiteRequestBy(Users, MaxClock)

Decide == DecideBy(Users, MaxClock)

OpenMaintenance == OpenMaintenanceBy(Users, MaxClock)

CloseMaintenance == CloseMaintenanceBy(Users)

ListPending == ListPendingBy(Users)

RequestOffsiteCheckout == RequestOffsiteCheckoutBy(Users)

Next ==
  \/ Checkout
  \/ Transfer
  \/ ReportLost
  \/ ReportFound
  \/ CreateOffsiteRequest
  \/ Decide
  \/ OpenMaintenance
  \/ CloseMaintenance
  \/ ListPending
  \/ RequestOffsiteCheckout
  \/ UpdateCustodyEvent
  \/ DeleteCustodyEvent

Spec == Init /\ [][Next]_vars

\* --------------------------------------------- specification SpecDeep
\* Longer histories of the same operations, called by an armorer and a
\* verified parent.
DeepUsers == {u \in Users : u.name \in {"Art", "Pat"}}

DeepCheckout == CheckoutBy(DeepUsers, MaxDeepClock)

DeepTransfer == TransferBy(DeepUsers, MaxDeepClock)

DeepReportLost == ReportLostBy(DeepUsers, MaxDeepClock)

DeepReportFound == ReportFoundBy(DeepUsers, MaxDeepClock)

DeepCreateOffsiteRequest == CreateOffsiteRequestBy(DeepUsers, MaxDeepClock)

DeepDecide == DecideBy(DeepUsers, MaxDeepClock)

DeepOpenMaintenance == OpenMaintenanceBy(DeepUsers, MaxDeepClock)

DeepCloseMaintenance == CloseMaintenanceBy(DeepUsers)

NextDeep ==
  \/ DeepCheckout
  \/ DeepTransfer
  \/ DeepReportLost
  \/ DeepReportFound
  \/ DeepCreateOffsiteRequest
  \/ DeepDecide
  \/ DeepOpenMaintenance
  \/ DeepCloseMaintenance
  \/ UpdateCustodyEvent
  \/ DeleteCustodyEvent

SpecDeep == Init /\ [][NextDeep]_vars

\* --------------------------------------------- specification SpecConc
\* Two requests at a time, each in its own Session.  A service function
\* first runs its queries and checks on what the store holds (no
\* with_for_update, no isolation level above the store's default, no unique
\* index on pending requests), and later flushes and commits what it
\* assigned to the objects it loaded.
ConcUsers == DeepUsers

Running(op, u, code, c, rid, reason, kit_loaded, req_loaded) ==
  [pc |-> "validated", op |-> op, user |-> u, kit_code |-> code,
   custodian |-> c, request_id |-> rid, denial_reason |-> reason,
   kit_loaded |-> kit_loaded, req_loaded |-> req_loaded]

\* the reads and checks of one call; an error is returned at once
Validate(s, op, out, run) ==
  /\ sessions[s].pc = "idle"
  /\ IF out.result = "ok"
     THEN /\ sessions' = [sessions EXCEPT ![s] = run]
          /\ UNCHANGED last
     ELSE /\ last' = Call(op, out.result)
          /\ UNCHANGED sessions
  /\ UNCHANGED <<kits, custody_events, approval_requests, maintenance_events,
                 clock, today, cipher>>

ConcCheckoutValidate ==
  /\ clock < MaxConcClock
  /\ \E s \in Sessions, u \in ConcUsers, code \in KitCodes, c \in Custodians :
       Validate(s, "checkout_onprem",
                checkout_kit_onprem(code, c.name, u, c.id, NoneDate),
                Running("checkout_onprem", u, code, c, NoneId, NoneStr,
                        IF KitByCode(code) = NoneId THEN NoneId
                        ELSE kits[KitByCode(code)], NoneId))

ConcCreateValidate ==
  /\ clock < MaxConcClock
  /\ \E s \in Sessions, u \in ConcUsers, code \in KitCodes, c \in Custodians :
       Validate(s, "create_offsite_request",
                create_offsite_checkout_request(code, c.name, u, c.id),
                Running("create_offsite_request", u, code, c, NoneId, NoneStr,
                        NoneId, NoneId))

ConcDecideValidate ==
  \E s \in Sessions, u \in ConcUsers, rid \in 1..(Len(approval_requests) + 1),
     approve \in BOOLEAN, reason \in DenialReasons :
    /\ approve => clock < MaxConcClock
    /\ Validate(s, IF approve THEN "approve" ELSE "deny",
                approve_or_deny_offsite_request(rid, u, approve, reason),
                Running(IF approve THEN "approve" ELSE "deny", u, NoneStr,
                        NoneId, rid, reason,
                        IF rid \in Indices(approval_requests)
                        THEN kits[approval_requests[rid].kit_id] ELSE NoneId,
                        IF rid \in Indices(approval_requests)
                        THEN approval_requests[rid] ELSE NoneId))

\* db.add / db.commit() of a call whose checks passed
SessionWrites(r) ==
  CASE r.op = "checkout_onprem" ->
         checkout_onprem_writes(r.kit_loaded.id, r.kit_loaded,
                                r.custodian.name, r.user, r.custodian.id,
                                NoneDate)
    [] r.op = "create_offsite_request" ->
         create_request_writes(KitByCode(r.kit_code), r.custodian.name,
                               r.user, r.custodian.id)
    [] r.op = "approve" ->
         approve_writes(r.request_id, r.req_loaded, r.req_loaded.kit_id,
                        r.kit_loaded, r.user)
    [] r.op = "deny" ->
         deny_writes(r.request_id, r.req_loaded, r.user, r.denial_reason)

ConcCommit ==
  \E s \in Sessions :
    /\ sessions[s].pc = "validated"
    /\ LET out == SessionWrites(sessions[s]) IN
         /\ kits' = out.kits
         /\ custody_events' = out.custody_events
         /\ approval_requests' = out.approval_requests
         /\ maintenance_events' = out.maintenance_events
         /\ clock' = IF sessions[s].op = "deny" THEN clock ELSE clock + 1
         /\ last' = Call(sessions[s].op, out.result)
    /\ sessions' = [sessions EXCEPT ![s] = IdleSession]
    /\ UNCHANGED <<today, cipher>>

NextConc ==
  \/ ConcCheckoutValidate
  \/ ConcCreateValidate
  \/ ConcDecideValidate
  \/ ConcCommit

SpecConc == Init /\ [][NextConc]_vars

\* --------------------------------------------- specification SpecWarn
\* Checkouts with and without an expected return date, days going by, and
\* the kit endpoint that computes the warnings of a kit; an armorer and a
\* verified parent call.
WarnStaff == {u \in Users : u.name = "Art"}

WarnParents == {u \in Users : u.name = "Pat"}

\* endpoints/kits.py get_kit_by_code: the kit and its warnings
get_kit_by_code(code) ==
  IF KitByCode(code) = NoneId THEN Raise("NotFound") ELSE Raise("ok")

GetKitByCodeCall(code) ==
  LET out == get_kit_by_code(code) IN
    /\ Commit(out)
    /\ last' = [op |-> "get_kit_by_code", result |-> out.result,
                warnings |-> IF out.result = "ok"
                             THEN calculate_kit_warnings(KitByCode(code))
                             ELSE NoWarnings,
                listed |-> <<>>]

\* the dates a caller gives as expected_return_date
ReturnDates == {NoneDate, today - 1, today, today + 1}

WarnCheckout ==
  /\ clock < MaxWarnClock
  /\ \E u \in WarnStaff, code \in KitCodes, c \in Custodians, d \in ReturnDates :
       CheckoutUntilCall(u, code, c, d)

WarnTransfer == TransferBy(WarnStaff, MaxWarnClock)

WarnReportLost == ReportLostBy(WarnStaff, MaxWarnClock)

WarnOpenMaintenance == OpenMaintenanceBy(WarnStaff, MaxWarnClock)

WarnCreateOffsiteRequest == CreateOffsiteRequestBy(WarnParents, MaxWarnClock)

WarnDecide == DecideBy(WarnStaff, MaxWarnClock)

GetKitByCode == \E code \in KitCodes : GetKitByCodeCall(code)

\* midnight
NextDay ==
  /\ today < MaxDay
  /\ today' = today + 1
  /\ UNCHANGED <<kits, custody_events, approval_requests, maintenance_events,
                 clock, last, sessions, cipher>>

NextWarn ==
  \/ WarnCheckout
  \/ WarnTransfer
  \/ WarnReportLost
  \/ WarnOpenMaintenance
  \/ WarnCreateOffsiteRequest
  \/ WarnDecide
  \/ GetKitByCode
  \/ NextDay

SpecWarn == Init /\ [][NextWarn]_vars

\* -------------------------------------------- specification SpecFleet
\* Two kits, each with or without a next_maintenance_date, checked out and
\* put in maintenance by an armorer while days go by, and the list of the
\* kits with warnings.
MaintenanceDates == {NoneDate, 1, 2}

InitFleet ==
  /\ \E d1, d2 \in MaintenanceDates :
       kits = [KitRows({1, 2}) EXCEPT ![1].next_maintenance_date = d1,
                                      ![2].next_maintenance_date = d2]
  /\ custody_events = <<>>
  /\ approval_requests = <<>>
  /\ maintenance_events = <<>>
  /\ clock = 0
  /\ last = NoCall
  /\ sessions = [s \in Sessions |-> IdleSession]
  /\ today = 1
  /\ cipher = NoCipher

FleetCheckout ==
  /\ clock < MaxWarnClock
  /\ \E u \in WarnStaff, code \in {"K1", "K2"}, c \in Custodians :
       \E d \in {NoneDate, today - 1} : CheckoutUntilCall(u, code, c, d)

FleetOpenMaintenance ==
  /\ clock < MaxWarnClock
  /\ \E u \in WarnStaff, code \in {"K1", "K2"} : OpenMaintenanceCall(u, code)

GetAllKitsWithWarnings ==
  /\ Commit(Raise("ok"))
  /\ last' = [Call("get_all_kits_with_warnings", "ok") EXCEPT
                !.listed = get_all_kits_with_warnings]

\* midnight
FleetNextDay ==
  /\ today < MaxFleetDay
  /\ today' = today + 1
  /\ UNCHANGED <<kits, custody_events, approval_requests, maintenance_events,
                 clock, last, sessions, cipher>>

NextFleet ==
  \/ FleetCheckout
  \/ FleetOpenMaintenance
  \/ GetAllKitsWithWarnings
  \/ FleetNextDay

SpecFleet == InitFleet /\ [][NextFleet]_vars

\* --------------------------------------------- specification SpecList
\* Two kits, requests for both of them by a verified parent, decisions by an
\* armorer, and every user asking for the pending requests.
InitList ==
  /\ kits = KitRows({1, 2})
  /\ custody_events = <<>>
  /\ approval_requests = <<>>
  /\ maintenance_events = <<>>
  /\ clock = 0
  /\ last = NoCall
  /\ sessions = [s \in Sessions |-> IdleSession]
  /\ today = 1
  /\ cipher = NoCipher

ListCreateOffsiteRequest ==
  /\ clock < MaxListClock
  /\ \E u \in WarnParents, code \in {"K1", "K2"}, c \in Custodians :
       CreateOffsiteRequestCall(u, code, c)

ListDecide == DecideBy(WarnStaff, MaxListClock)

NextList ==
  \/ ListCreateOffsiteRequest
  \/ ListDecide
  \/ ListPending

SpecList == InitList /\ [][NextList]_vars

\* ------------------------------------------------- core/encryption.py
\* A str is a sequence of code points, bytes are a sequence of 0..255.
\* "A" and "e with acute accent": one byte and two bytes in UTF-8
Chars == {65, 233}

Strings == UNION {[1..n -> Chars] : n \in 0..MaxLen}

RECURSIVE utf8_encode(_)
\* str.encode('utf-8')
utf8_encode(text) ==
  IF text = <<>> THEN <<>>
  ELSE ( IF Head(text) < 128 THEN <<Head(text)>>
         ELSE <<192 + (Head(text) \div 64), 128 + (Head(text) % 64)>> )
       \o utf8_encode(Tail(text))

RECURSIVE latin1_decode(_)
\* bytes.decode('latin-1'): every byte is a character
latin1_decode(bytes) ==
  IF bytes = <<>> THEN <<>>
  ELSE <<Head(bytes)>> \o latin1_decode(Tail(bytes))

RECURSIVE utf8_decode(_)
\* bytes.decode('utf-8')
utf8_decode(bytes) ==
  IF bytes = <<>> THEN <<>>
  ELSE IF Head(bytes) < 128
       THEN <<Head(bytes)>> \o utf8_decode(Tail(bytes))
       ELSE <<(Head(bytes) - 192) * 64 + (bytes[2] - 128)>>
            \o utf8_decode(Tail(Tail(bytes)))

\* FieldEncryption.__init__: the key the cipher is built with
FernetKey == 7

\* cryptography.fernet.Fernet, in small: a token is the version byte, the
\* time, the IV, the padded plaintext chained from the IV under the key,
\* and a MAC over all of it, written in text digits; decrypt checks version
\* and MAC, undoes the chaining and strips the padding.
FernetVersion == 128

BlockSize == 2

InvalidToken == <<-2>>

pkcs7_pad(bytes) ==
  LET n == BlockSize - (Len(bytes) % BlockSize) IN
    bytes \o [i \in 1..n |-> n]

pkcs7_unpad(bytes) == SubSeq(bytes, 1, Len(bytes) - bytes[Len(bytes)])

RECURSIVE cbc_encrypt(_, _, _)
cbc_encrypt(key, previous, bytes) ==
  IF bytes = <<>> THEN <<>>
  ELSE LET c == (Head(bytes) + previous + key) % 256 IN
         <<c>> \o cbc_encrypt(key, c, Tail(bytes))

RECURSIVE cbc_decrypt(_, _, _)
cbc_decrypt(key, previous, bytes) ==
  IF bytes = <<>> THEN <<>>
  ELSE <<(Head(bytes) - previous - key) % 256>>
       \o cbc_decrypt(key, Head(bytes), Tail(bytes))

RECURSIVE hmac(_, _)
hmac(key, bytes) ==
  IF bytes = <<>> THEN key
  ELSE (Head(bytes) + 3 * hmac(key, Tail(bytes))) % 256

RECURSIVE b64encode(_)
\* bytes to text digits (ASCII), two digits for a byte
b64encode(bytes) ==
  IF bytes = <<>> THEN <<>>
  ELSE <<48 + (Head(bytes) \div 16), 48 + (Head(bytes) % 16)>>
       \o b64encode(Tail(bytes))

RECURSIVE b64decode(_)
b64decode(digits) ==
  IF Len(digits) < 2 THEN <<>>
  ELSE <<(digits[1] - 48) * 16 + (digits[2] - 48)>>
       \o b64decode(Tail(Tail(digits)))

\* Fernet.encrypt(data) at time now, with iv = os.urandom(16)
fernet_encrypt(key, data, iv, now) ==
  LET body == <<FernetVersion, now, iv>>
                \o cbc_encrypt(key, iv, pkcs7_pad(data)) IN
    b64encode(body \o <<hmac(key, body)>>)

\* Fernet.decrypt(token), without ttl
fernet_decrypt(key, token) ==
  LET raw == b64decode(token) IN
    IF Len(raw) < 4 + BlockSize THEN InvalidToken
    ELSE LET body == SubSeq(raw, 1, Len(raw) - 1) IN
      IF body[1] # FernetVersion \/ raw[Len(raw)] # hmac(key, body)
      THEN InvalidToken
      ELSE pkcs7_unpad(cbc_decrypt(key, body[3], SubSeq(body, 4, Len(body))))

\* lines 129-144
encrypt(plaintext, iv, now) ==
  IF plaintext = NoneText THEN NoneText
  ELSE utf8_decode(fernet_encrypt(FernetKey, utf8_encode(plaintext), iv, now))

\* decrypt that reads the decrypted bytes as latin-1
decrypt_as_latin1(ciphertext) ==
  IF ciphertext = NoneText THEN NoneText
  ELSE LET decrypted_bytes ==
             fernet_decrypt(FernetKey, utf8_encode(ciphertext)) IN
    IF decrypted_bytes = InvalidToken THEN InvalidToken
    ELSE latin1_decode(decrypted_bytes)

\* lines 146-161
decrypt(ciphertext) ==
  IF ciphertext = NoneText THEN NoneText
  ELSE LET decrypted_bytes ==
             fernet_decrypt(FernetKey, utf8_encode(ciphertext)) IN
    IF decrypted_bytes = InvalidToken THEN InvalidToken
    ELSE utf8_decode(decrypted_bytes)

\* -------------------------------------------- specification SpecCipher
\* One value of a field, None or a string of up to MaxLen characters, is
\* encrypted up to MaxTokens times and the results are decrypted.  The
\* 128 random bits of an IV are a value that was not drawn before.
IVs == 0..MaxIV

InitCipher ==
  /\ kits = KitRows({1})
  /\ custody_events = <<>>
  /\ approval_requests = <<>>
  /\ maintenance_events = <<>>
  /\ clock = 0
  /\ last = NoCall
  /\ sessions = [s \in Sessions |-> IdleSession]
  /\ today = 1
  /\ \E plaintext \in Strings \cup {NoneText} :
       cipher = [NoCipher EXCEPT !.plaintext = plaintext]

CipherFrame ==
  UNCHANGED <<kits, custody_events, approval_requests, maintenance_events,
              clock, last, sessions, today>>

\* encrypt_field(value)
EncryptField ==
  /\ Len(cipher.tokens) < MaxTokens
  /\ \E iv \in IVs \ cipher.drawn :
       cipher' = [cipher EXCEPT
                    !.tokens = Append(@, encrypt(cipher.plaintext, iv,
                                                 cipher.now)),
                    !.drawn = IF cipher.plaintext = NoneText THEN @
                              ELSE @ \cup {iv}]
  /\ CipherFrame

\* decrypt_field(value)
DecryptField ==
  /\ \E i \in Indices(cipher.tokens) :
       cipher' = [cipher EXCEPT
                    !.decrypted = [of |-> i, text |-> decrypt(cipher.tokens[i])]]
  /\ CipherFrame

\* a second goes by
Tick ==
  /\ cipher.now < MaxTime
  /\ cipher' = [cipher EXCEPT !.now = @ + 1]
  /\ CipherFrame

NextCipher ==
  \/ EncryptField
  \/ DecryptField
  \/ Tick

SpecCipher == InitCipher /\ [][NextCipher]_vars

\* ================================================================ claims
CheckoutClass == {"checkout_onprem", "checkout_offsite"}

EventsOfKit(k) == {i \in Indices(custody_events) : custody_events[i].kit_id = k}

NewestEvent == custody_events[Len(custody_events)]

AtMostOnePendingInv ==
  \A k \in KitIds : Cardinality(PendingRequests(k)) <= 1

CreateOnPendingFails ==
  \A u \in Users, code \in KitCodes, c \in Custodians :
    ( /\ last'.op = "create_offsite_request"
      /\ CreateOffsiteRequestCall(u, code, c)
      /\ KitByCode(code) # NoneId
      /\ PendingRequests(KitByCode(code)) # {} )
    => /\ approval_requests' = approval_requests
       /\ last'.result # "ok"
       /\ ( u.verified_adult /\ kits[KitByCode(code)].status = "available" )
            => last'.result = "Conflict"

AtMostOnePending == []AtMostOnePendingInv /\ [][CreateOnPendingFails]_vars

AtMostOnePendingWitness ==
  /\ last = Call("create_offsite_request", "Conflict")
  /\ \E k \in KitIds : Cardinality(PendingRequests(k)) = 1
  /\ \E i \in Indices(approval_requests) : approval_requests[i].status = "denied"

\* C3 -- Kit/ledger consistency: kit.status is the status obtained by
\* replaying the kit's CustodyEvent and MaintenanceEvent rows in creation
\* order (a checkout row gives checked_out, a transfer row keeps the status,
\* lost gives lost, found and checkin give available, a MaintenanceEvent row
\* gives in_maintenance while open and available once closed).
RECURSIVE ReplayStatus(_, _)
ReplayStatus(k, t) ==
  IF t = 0 THEN "available"
  ELSE LET prev == ReplayStatus(k, t - 1)
           ce == {i \in EventsOfKit(k) : custody_events[i].created_at = t}
           me == {i \in Indices(maintenance_events) :
                    /\ maintenance_events[i].kit_id = k
                    /\ maintenance_events[i].created_at = t}
       IN IF ce # {}
          THEN LET e == custody_events[CHOOSE i \in ce : TRUE] IN
               CASE e.event_type \in CheckoutClass -> "checked_out"
                 [] e.event_type = "transfer" -> prev
                 [] e.event_type = "lost" -> "lost"
                 [] OTHER -> "available"
          ELSE IF me # {}
          THEN IF maintenance_events[CHOOSE i \in me : TRUE].is_open
               THEN "in_maintenance" ELSE "available"
          ELSE prev

KitLedgerConsistency ==
  \A k \in KitIds : kits[k].status = ReplayStatus(k, clock)

\* C4 -- Kit.status state machine: every change of a kit's status is one of
\* available->checked_out, checked_out->available, available->lost,
\* checked_out->lost, lost->available, available->in_maintenance,
\* in_maintenance->available.
StatusTransitions ==
  { <<"available", "checked_out">>, <<"checked_out", "available">>,
    <<"available", "lost">>, <<"checked_out", "lost">>,
    <<"lost", "available">>, <<"available", "in_maintenance">>,
    <<"in_maintenance", "available">> }

KitStatusStateMachine ==
  [][ \A k \in KitIds :
        kits'[k].status # kits[k].status
          => <<kits[k].status, kits'[k].status>> \in StatusTransitions ]_vars

\* C5 -- Concurrent checkout exclusion: at most one checkout-class
\* CustodyEvent is written per period of availability of a kit: between two
\* checkout-class events of a kit lies a found event or a MaintenanceEvent
\* of that kit (the rows after which the kit can be available again).
ExclusiveCheckout ==
  \A k \in KitIds : \A i, j \in EventsOfKit(k) :
    ( /\ i < j
      /\ custody_events[i].event_type \in CheckoutClass
      /\ custody_events[j].event_type \in CheckoutClass )
    => \/ \E f \in EventsOfKit(k) :
            i < f /\ f < j /\ custody_events[f].event_type \in {"found", "checkin"}
       \/ \E m \in Indices(maintenance_events) :
            /\ maintenance_events[m].kit_id = k
            /\ maintenance_events[m].created_at > custody_events[i].created_at
            /\ maintenance_events[m].created_at < custody_events[j].created_at

\* C6 -- Concurrent request exclusion: of two concurrent
\* create_offsite_request calls for one kit at most one creates a pending
\* ApprovalRequest; the kit never has two pending requests.
ExclusiveRequest ==
  \A i, j \in Indices(approval_requests) :
    ( /\ approval_requests[i].kit_id = approval_requests[j].kit_id
      /\ approval_requests[i].status = "pending"
      /\ approval_requests[j].status = "pending" )
    => i = j

\* C7 -- At most one open MaintenanceEvent per kit in every reachable state.
AtMostOneOpenMaintenance ==
  \A k \in KitIds : Cardinality(OpenEvents(k)) <= 1

\* C8 -- No partial effects: a call that ends in an error leaves every Kit,
\* CustodyEvent, ApprovalRequest and MaintenanceEvent as it was.
NoPartialEffects ==
  [][ last'.result # "ok" => UNCHANGED tables ]_vars

NoPartialEffectsWitness ==
  /\ last = Call("deny", "InvalidInput")
  /\ \E i \in Indices(approval_requests) : approval_requests[i].status = "pending"

\* C9 -- checkout_onprem succeeds iff the actor is coach, armorer or admin,
\* the kit exists and is available; on success it writes exactly one
\* CustodyEvent(checkout_onprem, on_premises), sets the kit checked_out with
\* the given custodian (id, name); an authorized checkout_onprem of the same
\* kit right after a successful one fails with InvalidState.
CheckoutOnpremStep ==
  \A u \in Users, code \in KitCodes, c \in Custodians :
    ( last'.op = "checkout_onprem" /\ CheckoutCall(u, code, c) ) =>
      LET k == KitByCode(code) IN
      /\ last'.result = "ok"
           <=> /\ u.role \in {"coach", "armorer", "admin"}
               /\ k # NoneId
               /\ kits[k].status = "available"
      /\ last'.result = "ok" =>
           /\ Len(custody_events') = Len(custody_events) + 1
           /\ SubSeq(custody_events', 1, Len(custody_events)) = custody_events
           /\ LET e == custody_events'[Len(custody_events')] IN
                /\ e.event_type = "checkout_onprem"
                /\ e.location_type = "on_premises"
                /\ e.kit_id = k
                /\ e.custodian_id = c.id /\ e.custodian_name = c.name
           /\ kits'[k].status = "checked_out"
           /\ kits'[k].current_custodian_id = c.id
           /\ kits'[k].current_custodian_name = c.name
           /\ approval_requests' = approval_requests
           /\ maintenance_events' = maintenance_events
      /\ ( /\ last = Call("checkout_onprem", "ok")
           /\ u.role \in {"coach", "armorer", "admin"}
           /\ k # NoneId /\ k = NewestEvent.kit_id )
           => last'.result = "InvalidState"

TransferStep ==
  \A u \in Users, code \in KitCodes, c \in Custodians :
    ( last'.op = "transfer" /\ TransferCall(u, code, c) ) =>
      LET k == KitByCode(code) IN
      /\ ( /\ u.role \in {"coach", "armorer", "admin"}
           /\ k # NoneId
           /\ kits[k].status # "checked_out" )
           => last'.result = "InvalidState"
      /\ last'.result = "ok" =>
           /\ k # NoneId
           /\ kits[k].status = "checked_out"
           /\ Len(custody_events') = Len(custody_events) + 1
           /\ SubSeq(custody_events', 1, Len(custody_events)) = custody_events
           /\ LET e == custody_events'[Len(custody_events')] IN
                /\ e.event_type = "transfer"
                /\ e.kit_id = k
                /\ e.custodian_id = c.id /\ e.custodian_name = c.name
           /\ kits'[k].status = "checked_out"
           /\ kits'[k].current_custodian_id = c.id
           /\ kits'[k].current_custodian_name = c.name
           /\ approval_requests' = approval_requests
           /\ maintenance_events' = maintenance_events

TransferCustody == [][TransferStep]_vars

TransferCustodyWitness ==
  /\ last = Call("transfer", "ok")
  /\ Len(custody_events) >= 2
  /\ NewestEvent.event_type = "transfer"
  /\ custody_events[Len(custody_events) - 1].custodian_name
       # NewestEvent.custodian_name
  /\ kits[NewestEvent.kit_id].status = "checked_out"
  /\ kits[NewestEvent.kit_id].current_custodian_name = NewestEvent.custodian_name

\* C11 -- report_lost of an existing kit by an armorer or admin fails with
\* InvalidState (nothing written) when the kit is already lost; otherwise it
\* writes exactly one CustodyEvent(lost) that names the kit's custodian at
\* that moment (its id, and its name, written "Unknown" when the kit has no
\* custodian name), sets kit.status to lost and leaves the kit's
\* current_custodian id and name as they were.
ReportLostStep ==
  \A u \in Users, code \in KitCodes :
    ( last'.op = "report_lost" /\ ReportLostCall(u, code) ) =>
      LET k == KitByCode(code) IN
      ( u.role \in {"armorer", "admin"} /\ k # NoneId ) =>
        IF kits[k].status = "lost"
        THEN /\ last'.result = "InvalidState"
             /\ UNCHANGED tables
        ELSE /\ last'.result = "ok"
             /\ Len(custody_events') = Len(custody_events) + 1
             /\ SubSeq(custody_events', 1, Len(custody_events)) = custody_events
             /\ LET e == custody_events'[Len(custody_events')] IN
                  /\ e.event_type = "lost"
                  /\ e.kit_id = k
                  /\ e.custodian_id = kits[k].current_custodian_id
                  /\ e.custodian_name =
                       IF kits[k].current_custodian_name = NoneStr
                       THEN "Unknown" ELSE kits[k].current_custodian_name
             /\ kits'[k].status = "lost"
             /\ kits'[k].current_custodian_id = kits[k].current_custodian_id
             /\ kits'[k].current_custodian_name = kits[k].current_custodian_name
             /\ approval_requests' = approval_requests
             /\ maintenance_events' = maintenance_events

ReportLostEffect == [][ReportLostStep]_vars

ReportLostWitness ==
  /\ last = Call("report_lost", "ok")
  /\ NewestEvent.event_type = "lost"
  /\ kits[NewestEvent.kit_id].status = "lost"
  /\ kits[NewestEvent.kit_id].current_custodian_name = "Bob"
  /\ NewestEvent.custodian_name = "Bob"

\* C12 -- report_found succeeds only when the kit is lost: an authorised
\* report_found of an existing kit that is not lost fails with InvalidState
\* and writes nothing; a successful one writes exactly one
\* CustodyEvent(found), sets kit.status to available and sets the kit's
\* current_custodian id and name to null.
ReportFoundStep ==
  \A u \in Users, code \in KitCodes :
    ( last'.op = "report_found" /\ ReportFoundCall(u, code) ) =>
      LET k == KitByCode(code) IN
      /\ last'.result = "ok" => ( k # NoneId /\ kits[k].status = "lost" )
      /\ ( /\ u.role \in {"armorer", "admin"}
           /\ k # NoneId
           /\ kits[k].status # "lost" )
           => ( last'.result = "InvalidState" /\ UNCHANGED tables )
      /\ last'.result = "ok" =>
           /\ Len(custody_events') = Len(custody_events) + 1
           /\ SubSeq(custody_events', 1, Len(custody_events)) = custody_events
           /\ LET e == custody_events'[Len(custody_events')] IN
                /\ e.event_type = "found"
                /\ e.kit_id = k
           /\ kits'[k].status = "available"
           /\ kits'[k].current_custodian_id = NoneId
           /\ kits'[k].current_custodian_name = NoneStr
           /\ approval_requests' = approval_requests
           /\ maintenance_events' = maintenance_events

ReportFoundEffect == [][ReportFoundStep]_vars

ReportFoundWitness ==
  /\ last = Call("report_found", "ok")
  /\ Len(custody_events) >= 2
  /\ NewestEvent.event_type = "found"
  /\ custody_events[Len(custody_events) - 1].event_type = "lost"
  /\ custody_events[Len(custody_events) - 1].custodian_name = "Bob"
  /\ kits[NewestEvent.kit_id].status = "available"
  /\ kits[NewestEvent.kit_id].current_custodian_name = NoneStr

\* C13 -- Role gating: in every reachable state a call by an actor whose
\* role is outside the operation's allowed set returns Forbidden and
\* changes nothing
\* (checkout_onprem, transfer: coach, armorer, admin; report_lost,
\* report_found, maintenance open and close: armorer, admin; decide and
\* list_pending: armorer, coach, admin).  No call made by a parent or a
\* volunteer, and no lost/found/maintenance call made by a coach, changes a
\* kit's status or writes a CustodyEvent of type lost or found.
Outside(roles) == {u \in Users : u.role \notin roles}

\* the outcome of a refused call: Forbidden, and the tables as they are
Refused(out) ==
  out = Outcome("Forbidden", kits, custody_events, approval_requests,
                maintenance_events)

\* the outcome keeps every kit's status and adds no lost or found event
NoStatusChangeNoLostFound(out) ==
  /\ \A k \in KitIds : out.kits[k].status = kits[k].status
  /\ \A i \in Indices(out.custody_events) :
       i > Len(custody_events)
         => out.custody_events[i].event_type \notin {"lost", "found"}

ParentsAndVolunteers == Outside({"coach", "armorer", "admin"})

NotArmorerOrAdmin == Outside({"armorer", "admin"})

RoleGatingInv ==
  /\ \A u \in ParentsAndVolunteers, code \in KitCodes, c \in Custodians :
       /\ Refused(checkout_kit_onprem(code, c.name, u, c.id, NoneDate))
       /\ Refused(transfer_kit_custody(code, c.name, u, c.id))
       /\ NoStatusChangeNoLostFound(
            create_offsite_checkout_request(code, c.name, u, c.id))
  /\ \A u \in NotArmorerOrAdmin, code \in KitCodes :
       /\ Refused(report_kit_lost(code, u))
       /\ Refused(report_kit_found(code, u))
       /\ Refused(open_maintenance(code, u))
       /\ \A first \in FirstChoices(code) :
            Refused(close_maintenance(code, u, first))
  /\ \A u \in ParentsAndVolunteers :
       /\ \A rid \in 1..(Len(approval_requests) + 1), approve \in BOOLEAN,
             reason \in DenialReasons :
            Refused(approve_or_deny_offsite_request(rid, u, approve, reason))
       /\ Refused(get_pending_approvals(u))
       /\ \A signature \in AttestationSignatures, accepted \in BOOLEAN :
            NoStatusChangeNoLostFound(
              request_offsite_checkout(u, signature, accepted))

VerifiedAdultOnly ==
  /\ \A u \in Users, code \in KitCodes, c \in Custodians :
       ~u.verified_adult
         => Refused(create_offsite_checkout_request(code, c.name, u, c.id))
  /\ \A i \in Indices(approval_requests) :
       \E u \in Users :
         /\ u.id = approval_requests[i].requester_id
         /\ u.name = approval_requests[i].requester_name
         /\ u.verified_adult

VerifiedAdultOnlyWitness ==
  /\ last = Call("create_offsite_request", "Forbidden")
  /\ Len(approval_requests) = 1
  /\ approval_requests[1].requester_name = "Pat"
  /\ approval_requests[1].status = "pending"

\* C15 -- Attestation is mandatory: a create_offsite_request whose
\* attestation_accepted is false or whose attestation_signature is empty
\* fails with InvalidInput and creates no ApprovalRequest, also for a
\* verified adult and an available kit; so a request that was created
\* carries the signature of an accepted attestation.
AttestationMandatoryStep ==
  /\ \A u \in Users, signature \in AttestationSignatures, accepted \in BOOLEAN :
       ( /\ last'.op = "request_offsite_checkout"
         /\ RequestOffsiteCheckoutCall(u, signature, accepted)
         /\ u.verified_adult
         /\ ( ~accepted \/ signature = "" ) )
       => /\ last'.result = "InvalidInput"
          /\ approval_requests' = approval_requests
  /\ ( last'.op = "create_offsite_request" /\ last'.result = "ok" )
       => approval_requests'[Len(approval_requests')].attestation_signature
            \notin {NoneStr, ""}

AttestationMandatory == [][AttestationMandatoryStep]_vars

\* C16 -- Attestation capture: every ApprovalRequest carries a non-null
\* attestation bundle (text, signature, timestamp) from creation on, and a
\* decision leaves the three attestation fields of every request as they
\* were.
AttestationCaptured ==
  \A i \in Indices(approval_requests) :
    /\ approval_requests[i].attestation_text # NoneStr
    /\ approval_requests[i].attestation_signature # NoneStr
    /\ approval_requests[i].attestation_timestamp # NoneId

AttestationKeptStep ==
  \A i \in Indices(approval_requests) :
    /\ approval_requests'[i].attestation_text
         = approval_requests[i].attestation_text
    /\ approval_requests'[i].attestation_signature
         = approval_requests[i].attestation_signature
    /\ approval_requests'[i].attestation_timestamp
         = approval_requests[i].attestation_timestamp

AttestationCapture == []AttestationCaptured /\ [][AttestationKeptStep]_vars

\* C17 -- create_offsite_request never changes a Kit and writes no
\* CustodyEvent (nor a MaintenanceEvent); after a successful request the
\* kit is still available with the custodian fields it had, the ledger is
\* as it was, and the only new row is one ApprovalRequest of that kit with
\* status pending; a failed request adds no ApprovalRequest.
CreateRequestStep ==
  \A u \in Users, code \in KitCodes, c \in Custodians :
    ( last'.op = "create_offsite_request"
      /\ CreateOffsiteRequestCall(u, code, c) ) =>
      /\ kits' = kits
      /\ custody_events' = custody_events
      /\ maintenance_events' = maintenance_events
      /\ IF last'.result = "ok"
         THEN /\ kits'[KitByCode(code)].status = "available"
              /\ Len(approval_requests') = Len(approval_requests) + 1
              /\ SubSeq(approval_requests', 1, Len(approval_requests))
                   = approval_requests
              /\ LET r == approval_requests'[Len(approval_requests')] IN
                   /\ r.status = "pending"
                   /\ r.kit_id = KitByCode(code)
                   /\ r.requester_id = u.id
                   /\ r.custodian_id = c.id /\ r.custodian_name = c.name
         ELSE approval_requests' = approval_requests

CreateRequestFrame == [][CreateRequestStep]_vars

CreateRequestFrameWitness ==
  /\ last = Call("create_offsite_request", "ok")
  /\ Len(approval_requests) = 2
  /\ approval_requests[1].status = "denied"
  /\ approval_requests[2].status = "pending"
  /\ kits[approval_requests[2].kit_id].status = "available"
  /\ kits[approval_requests[2].kit_id].current_custodian_name = NoneStr
  /\ custody_events = <<>>

\* C18 -- decide(approve=true) by an armorer, coach or admin on a pending
\* request whose kit is available succeeds and, in that one step, sets the
\* request approved with the approver's id, name and role (nothing else of
\* any request changes), writes exactly one CustodyEvent(checkout_offsite,
\* off_site) of the kit naming the proposed custodian, and sets the kit
\* checked_out with the proposed custodian as current custodian.
ApproveStep ==
  \A u \in Users, rid \in Indices(approval_requests), reason \in DenialReasons :
    ( /\ last'.op = "approve"
      /\ DecideCall(u, rid, TRUE, reason)
      /\ u.role \in {"armorer", "coach", "admin"}
      /\ approval_requests[rid].status = "pending"
      /\ kits[approval_requests[rid].kit_id].status = "available" ) =>
      LET req == approval_requests[rid]
          k == req.kit_id IN
      /\ last'.result = "ok"
      /\ approval_requests' =
           [approval_requests EXCEPT ![rid].status = "approved",
                                     ![rid].approver_id = u.id,
                                     ![rid].approver_name = u.name,
                                     ![rid].approver_role = u.role]
      /\ Len(custody_events') = Len(custody_events) + 1
      /\ SubSeq(custody_events', 1, Len(custody_events)) = custody_events
      /\ LET e == custody_events'[Len(custody_events')] IN
           /\ e.event_type = "checkout_offsite"
           /\ e.location_type = "off_site"
           /\ e.kit_id = k
           /\ e.custodian_id = req.custodian_id
           /\ e.custodian_name = req.custodian_name
      /\ kits' = [kits EXCEPT ![k].status = "checked_out",
                              ![k].current_custodian_id = req.custodian_id,
                              ![k].current_custodian_name = req.custodian_name]
      /\ maintenance_events' = maintenance_events

ApproveEffect == [][ApproveStep]_vars

ApproveEffectWitness ==
  /\ last = Call("approve", "ok")
  /\ Len(approval_requests) = 1
  /\ approval_requests[1].status = "approved"
  /\ approval_requests[1].approver_role = "coach"
  /\ Len(custody_events) = 1
  /\ NewestEvent.event_type = "checkout_offsite"
  /\ kits[NewestEvent.kit_id].status = "checked_out"
  /\ kits[NewestEvent.kit_id].current_custodian_name
       = approval_requests[1].custodian_name

\* C19 -- Every CustodyEvent of type checkout_offsite records its approver:
\* approved_by_id and approved_by_name are not null, and they are the id and
\* name of the approver of an approved request of that kit.
ApproverOnOffsiteEvent ==
  \A i \in Indices(custody_events) :
    custody_events[i].event_type = "checkout_offsite" =>
      /\ custody_events[i].approved_by_id # NoneId
      /\ custody_events[i].approved_by_name # NoneStr
      /\ \E r \in Indices(approval_requests) :
           /\ approval_requests[r].kit_id = custody_events[i].kit_id
           /\ approval_requests[r].status = "approved"
           /\ approval_requests[r].approver_id = custody_events[i].approved_by_id
           /\ approval_requests[r].approver_name
                = custody_events[i].approved_by_name

\* C20 -- Availability is re-checked at decision time: decide(approve=true)
\* by an armorer, coach or admin on a pending request whose kit is no
\* longer available (checked out, lost or in maintenance since the request
\* was filed) fails with InvalidState; the request stays pending, no
\* CustodyEvent is written and the kit is unchanged.
RecheckStep ==
  \A u \in Users, rid \in Indices(approval_requests), reason \in DenialReasons :
    ( /\ last'.op = "approve"
      /\ DecideCall(u, rid, TRUE, reason)
      /\ u.role \in {"armorer", "coach", "admin"}
      /\ approval_requests[rid].status = "pending"
      /\ kits[approval_requests[rid].kit_id].status # "available" ) =>
      /\ last'.result = "InvalidState"
      /\ approval_requests'[rid].status = "pending"
      /\ UNCHANGED tables

RecheckAtDecision == [][RecheckStep]_vars

RecheckAtDecisionWitness ==
  /\ last = Call("approve", "InvalidState")
  /\ Len(approval_requests) = 1
  /\ approval_requests[1].status = "pending"
  /\ kits[approval_requests[1].kit_id].status = "lost"
  /\ Len(custody_events) = 1
  /\ NewestEvent.created_at > approval_requests[1].created_at

\* C21 -- Denial: in every reachable state decide(approve=false) by an
\* armorer, coach or admin on a pending request fails with InvalidInput and changes nothing (the request
\* stays pending) when no denial_reason is given (None or empty); with a
\* reason it succeeds, sets the request denied with the approver's id, name
\* and role and the reason, writes no CustodyEvent and leaves every Kit
\* (status and custodian) as it was.
Deciders == {u \in Users : u.role \in {"armorer", "coach", "admin"}}

DenyEffect ==
  \A u \in Deciders, rid \in Indices(approval_requests), reason \in DenialReasons :
    approval_requests[rid].status = "pending" =>
      LET out == approve_or_deny_offsite_request(rid, u, FALSE, reason) IN
      IF reason \in {NoneStr, ""}
      THEN /\ out.result = "InvalidInput"
           /\ out.approval_requests[rid].status = "pending"
           /\ out.approval_requests = approval_requests
           /\ out.kits = kits
           /\ out.custody_events = custody_events
           /\ out.maintenance_events = maintenance_events
      ELSE /\ out.result = "ok"
           /\ out.approval_requests =
                [approval_requests EXCEPT ![rid].status = "denied",
                                          ![rid].approver_id = u.id,
                                          ![rid].approver_name = u.name,
                                          ![rid].approver_role = u.role,
                                          ![rid].denial_reason = reason]
           /\ out.custody_events = custody_events
           /\ out.kits = kits
           /\ out.maintenance_events = maintenance_events

DenyEffectWitness ==
  /\ last = Call("deny", "ok")
  /\ Len(approval_requests) = 1
  /\ approval_requests[1].status = "denied"
  /\ approval_requests[1].denial_reason = "damaged"
  /\ approval_requests[1].approver_name = "Cole"
  /\ custody_events = <<>>
  /\ kits[approval_requests[1].kit_id].status = "available"

\* C22 -- In every reachable state an ApprovalRequest has a non-empty
\* denial_reason if and only if its status is denied.
DenialReasonIffDenied ==
  \A i \in Indices(approval_requests) :
    approval_requests[i].denial_reason \notin {NoneStr, ""}
      <=> approval_requests[i].status = "denied"

DenialReasonIffDeniedWitness ==
  /\ Len(approval_requests) = 2
  /\ approval_requests[1].status = "denied"
  /\ approval_requests[2].status = "approved"
  /\ approval_requests[2].denial_reason = NoneStr
  /\ last = Call("approve", "ok")

\* C23 -- ApprovalRequest lifecycle: a request is created pending; its
\* status changes only from pending, to approved or denied (approved and
\* denied are absorbing); decide on a request that is not pending, by an
\* armorer, coach or admin, fails with Conflict and changes nothing.
RequestStatusStep ==
  /\ \A i \in Indices(approval_requests') :
       IF i \in Indices(approval_requests)
       THEN approval_requests'[i].status # approval_requests[i].status
              => /\ approval_requests[i].status = "pending"
                 /\ approval_requests'[i].status \in {"approved", "denied"}
       ELSE approval_requests'[i].status = "pending"
  /\ Len(approval_requests') >= Len(approval_requests)

DecidedIsConflict ==
  \A u \in Deciders, rid \in Indices(approval_requests),
     approve \in BOOLEAN, reason \in DenialReasons :
    approval_requests[rid].status # "pending"
      => approve_or_deny_offsite_request(rid, u, approve, reason)
           = Outcome("Conflict", kits, custody_events, approval_requests,
                     maintenance_events)

RequestLifecycle == []DecidedIsConflict /\ [][RequestStatusStep]_vars

RequestLifecycleWitness ==
  /\ last = Call("approve", "Conflict")
  /\ Len(approval_requests) = 1
  /\ approval_requests[1].status = "denied"

\* C24 -- In every reachable state maintenance open succeeds exactly for an
\* armorer or admin on an existing kit whose status is not in_maintenance;
\* on a kit in maintenance an authorised open fails with InvalidState and
\* changes nothing; on success it creates exactly one MaintenanceEvent of
\* the kit with open = true, sets kit.status to in_maintenance and changes
\* nothing else.
OpenMaintenanceEffect ==
  \A u \in Users, code \in KitCodes :
    LET k == KitByCode(code)
        out == open_maintenance(code, u) IN
    /\ out.result = "ok"
         <=> /\ u.role \in {"armorer", "admin"}
             /\ k # NoneId
             /\ kits[k].status # "in_maintenance"
    /\ ( /\ u.role \in {"armorer", "admin"}
         /\ k # NoneId
         /\ kits[k].status = "in_maintenance" )
         => out = Outcome("InvalidState", kits, custody_events,
                          approval_requests, maintenance_events)
    /\ out.result = "ok" =>
         /\ Len(out.maintenance_events) = Len(maintenance_events) + 1
         /\ SubSeq(out.maintenance_events, 1, Len(maintenance_events))
              = maintenance_events
         /\ LET m == out.maintenance_events[Len(out.maintenance_events)] IN
              /\ m.kit_id = k
              /\ m.is_open
              /\ m.opened_by_id = u.id
         /\ out.kits = [kits EXCEPT ![k].status = "in_maintenance"]
         /\ out.custody_events = custody_events
         /\ out.approval_requests = approval_requests

OpenMaintenanceWitness ==
  /\ last = Call("open_maintenance", "InvalidState")
  /\ Len(maintenance_events) = 1
  /\ maintenance_events[1].is_open
  /\ kits[maintenance_events[1].kit_id].status = "in_maintenance"

\* C25 -- In every reachable state maintenance close by an armorer or admin
\* on an existing kit fails with InvalidState, changing nothing, unless the
\* kit is in_maintenance, and succeeds when it is; on success no
\* MaintenanceEvent row is created: one row that was open for the kit gets
\* open = false and the closer's id and name (the row keeps its id and its
\* other fields), kit.status becomes available, the kit's current
\* custodian id and name become null, nothing else changes.
CloseMaintenanceEffect ==
  \A u \in Users, code \in KitCodes :
    \A first \in FirstChoices(code) :
      LET k == KitByCode(code)
          out == close_maintenance(code, u, first) IN
      /\ ( /\ u.role \in {"armorer", "admin"}
           /\ k # NoneId
           /\ kits[k].status # "in_maintenance" )
           => out = Outcome("InvalidState", kits, custody_events,
                            approval_requests, maintenance_events)
      /\ ( /\ u.role \in {"armorer", "admin"}
           /\ k # NoneId
           /\ kits[k].status = "in_maintenance" )
           => out.result = "ok"
      /\ out.result = "ok" =>
           /\ kits[k].status = "in_maintenance"
           /\ \E m \in Indices(maintenance_events) :
                /\ maintenance_events[m].kit_id = k
                /\ maintenance_events[m].is_open
                /\ out.maintenance_events =
                     [maintenance_events EXCEPT
                        ![m].is_open = FALSE,
                        ![m].closed_by_id = u.id,
                        ![m].closed_by_name = u.name]
           /\ out.kits = [kits EXCEPT ![k].status = "available",
                                      ![k].current_custodian_id = NoneId,
                                      ![k].current_custodian_name = NoneStr]
           /\ out.custody_events = custody_events
           /\ out.approval_requests = approval_requests

CloseMaintenanceWitness ==
  /\ last = Call("close_maintenance", "ok")
  /\ Len(maintenance_events) = 1
  /\ ~maintenance_events[1].is_open
  /\ maintenance_events[1].closed_by_name = "Ann"
  /\ Len(custody_events) = 1
  /\ NewestEvent.custodian_name = "Bob"
  /\ kits[NewestEvent.kit_id].status = "available"
  /\ kits[NewestEvent.kit_id].current_custodian_name = NoneStr


\* the checkout-class events of kit k, and the one written last
CheckoutEvents(k) ==
  {i \in EventsOfKit(k) : custody_events[i].event_type \in CheckoutClass}

MostRecentCheckout(k) ==
  custody_events[CHOOSE i \in CheckoutEvents(k) :
                   \A j \in CheckoutEvents(k) : j <= i]

ArmorersAndAdmins == {u \in Users : u.role \in {"armorer", "admin"}}

\* C26 -- Warnings are advisory: a call that computes the warnings of a kit
\* leaves the four tables as they are, and in every reachable state a kit
\* that carries a warning (overdue return or extended custody) can still be
\* transferred, reported lost and put in maintenance by an armorer or admin.
WarnedKitNotBlocked ==
  \A k \in KitIds :
    ( \/ calculate_kit_warnings(k).overdue_return
      \/ calculate_kit_warnings(k).extended_custody ) =>
      \A u \in ArmorersAndAdmins :
        /\ \A c \in Custodians :
             transfer_kit_custody(kits[k].code, c.name, u, c.id).result = "ok"
        /\ report_kit_lost(kits[k].code, u).result = "ok"
        /\ open_maintenance(kits[k].code, u).result = "ok"

WarningsAdvisory ==
  /\ []WarnedKitNotBlocked
  /\ [][ last'.op = "get_kit_by_code" => UNCHANGED <<tables, clock>> ]_vars

\* an overdue kit was transferred, and its warnings were computed afterwards
WarningsAdvisoryWitness ==
  /\ last.op = "get_kit_by_code"
  /\ last.warnings.overdue_return
  /\ Len(custody_events) = 2
  /\ NewestEvent.event_type = "transfer"
  /\ NewestEvent.created_date > custody_events[1].expected_return_date
  /\ custody_events[1].expected_return_date # NoneDate

\* C27 -- overdue_return: the warnings of a kit flag overdue_return exactly
\* when the kit is checked_out, its most recent checkout-class event carries
\* an expected_return_date and today is after that date; days_overdue is then
\* today minus that date.  A kit that is not checked_out, or whose date is
\* today or later, is not flagged and has no days_overdue.
OverdueReturn ==
  \A k \in KitIds :
    LET w == calculate_kit_warnings(k) IN
      IF /\ kits[k].status = "checked_out"
         /\ CheckoutEvents(k) # {}
         /\ MostRecentCheckout(k).expected_return_date # NoneDate
         /\ today > MostRecentCheckout(k).expected_return_date
      THEN /\ w.overdue_return
           /\ w.days_overdue = today - MostRecentCheckout(k).expected_return_date
      ELSE /\ ~w.overdue_return
           /\ w.days_overdue = NoneDays

\* the kit was checked out with yesterday as expected_return_date
OverdueReturnWitness ==
  /\ last.op = "get_kit_by_code"
  /\ last.warnings.overdue_return
  /\ last.warnings.days_overdue = 1
  /\ last.warnings.days_checked_out = 0
  /\ ~last.warnings.extended_custody

PendingRows ==
  {approval_requests[i] : i \in {j \in Indices(approval_requests) :
                                    approval_requests[j].status = "pending"}}

OpenMaintenanceEventsOf(k) ==
  {m \in Indices(maintenance_events) :
     maintenance_events[m].kit_id = k /\ maintenance_events[m].is_open}

\* C31 -- Inconsistent is unreachable: in every reachable state a kit whose
\* status is in_maintenance has at least one open MaintenanceEvent, no call
\* has answered Inconsistent, and no close_maintenance call would.
InconsistentUnreachable ==
  /\ \A k \in KitIds :
       kits[k].status = "in_maintenance" => OpenMaintenanceEventsOf(k) # {}
  /\ last.result # "Inconsistent"
  /\ \A u \in Users, code \in KitCodes :
       \A first \in FirstChoices(code) :
         close_maintenance(code, u, first).result # "Inconsistent"

\* a kit with two open MaintenanceEvents (opened, reported lost, opened
\* again) was closed: one row is still open and the kit is available
InconsistentUnreachableWitness ==
  /\ last = Call("close_maintenance", "ok")
  /\ Len(maintenance_events) = 2
  /\ \E k \in KitIds :
       /\ kits[k].status = "available"
       /\ OpenMaintenanceEventsOf(k) # {}


\* C32 -- Every custody-affecting operation writes its ledger row: a step
\* that changes a kit's current custodian (id or name) or moves the kit into
\* or out of checked_out appends exactly one CustodyEvent, and that event is
\* of this kit.
LedgerRowPerCustodyChange ==
  [][ \A k \in KitIds :
        ( \/ kits'[k].current_custodian_id # kits[k].current_custodian_id
          \/ kits'[k].current_custodian_name # kits[k].current_custodian_name
          \/ (kits'[k].status = "checked_out") # (kits[k].status = "checked_out") )
        => /\ Len(custody_events') = Len(custody_events) + 1
           /\ custody_events'[Len(custody_events')].kit_id = k ]_vars


OffsiteEventsOf(k) ==
  {i \in EventsOfKit(k) : custody_events[i].event_type = "checkout_offsite"}

RequestsOf(k, status) ==
  {r \in Indices(approval_requests) :
     approval_requests[r].kit_id = k /\ approval_requests[r].status = status}

\* C33 -- Concurrent decisions: of the decide calls that run concurrently on
\* one pending request exactly one takes effect: a request row is changed
\* only while its status is pending, and the terminal status agrees with the
\* ledger: a kit has as many checkout_offsite events as approved requests,
\* and a denied request carries no approval (its kit got no checkout_offsite
\* event from it).
DecisionTakesEffectOnce ==
  \A r \in Indices(approval_requests) :
    approval_requests'[r] # approval_requests[r]
      => approval_requests[r].status = "pending"

ConcurrentDecisions ==
  /\ [](\A k \in KitIds :
          Cardinality(OffsiteEventsOf(k)) = Cardinality(RequestsOf(k, "approved")))
  /\ [][DecisionTakesEffectOnce]_vars


AvailableHasNoCustodian ==
  \A k \in KitIds :
    kits[k].status = "available"
      => /\ kits[k].current_custodian_id = NoneId
         /\ kits[k].current_custodian_name = NoneStr

\* a kit that was checked out to Bob, reported lost and found is available
AvailableHasNoCustodianWitness ==
  /\ last = Call("report_found", "ok")
  /\ Len(custody_events) = 3
  /\ custody_events[1].custodian_name = "Bob"
  /\ custody_events[1].custodian_id # NoneId
  /\ kits[custody_events[1].kit_id].status = "available"
  /\ kits[custody_events[1].kit_id].current_custodian_name = NoneStr


\* the CustodyEvent of kit k written last
NewestEventOf(k) ==
  custody_events[CHOOSE i \in EventsOfKit(k) : \A j \in EventsOfKit(k) : j <= i]

\* C36 -- Projection matches the ledger while checked out: in every reachable
\* state a kit with status checked_out has CustodyEvents, the most recent one
\* is a checkout_onprem, checkout_offsite or transfer event, and the kit's
\* current custodian id and name are the custodian recorded on that event.
ProjectionMatchesLedger ==
  \A k \in KitIds :
    kits[k].status = "checked_out"
      => /\ EventsOfKit(k) # {}
         /\ NewestEventOf(k).event_type
              \in {"checkout_onprem", "checkout_offsite", "transfer"}
         /\ kits[k].current_custodian_id = NewestEventOf(k).custodian_id
         /\ kits[k].current_custodian_name = NewestEventOf(k).custodian_name


\* the lost and found events and the MaintenanceEvents of kit k created
\* after time t
LostFoundAfter(k, t) ==
  {i \in EventsOfKit(k) :
     /\ custody_events[i].event_type \in {"lost", "found"}
     /\ custody_events[i].created_at > t}

MaintenanceAfter(k, t) ==
  {m \in Indices(maintenance_events) :
     maintenance_events[m].kit_id = k /\ maintenance_events[m].created_at > t}

\* C37 -- The checkout event used for the warnings belongs to the current
\* custody period: in every reachable state a checked_out kit has a
\* checkout-class CustodyEvent, and no lost or found event and no
\* MaintenanceEvent of the kit was created after the newest one, the event
\* latest_checkout picks.
CheckoutOfCurrentPeriod ==
  \A k \in KitIds :
    kits[k].status = "checked_out"
      => /\ latest_checkout(k) # NoneId
         /\ LostFoundAfter(k, custody_events[latest_checkout(k)].created_at) = {}
         /\ MaintenanceAfter(k, custody_events[latest_checkout(k)].created_at) = {}

\* a kit checked out after a maintenance that was opened and closed: its
\* MaintenanceEvent is older than the checkout
CheckoutOfCurrentPeriodWitness ==
  \E k \in KitIds :
    /\ kits[k].status = "checked_out"
    /\ latest_checkout(k) # NoneId
    /\ \E m \in Indices(maintenance_events) :
         /\ maintenance_events[m].kit_id = k
         /\ ~maintenance_events[m].is_open
         /\ maintenance_events[m].created_at
              < custody_events[latest_checkout(k)].created_at


\* the requests that the step approves, and the off-site events it writes
ApprovedInStep ==
  {r \in Indices(approval_requests) :
     /\ approval_requests[r].status # "approved"
     /\ approval_requests'[r].status = "approved"}

OffsiteWrittenInStep ==
  {i \in Indices(custody_events') :
     /\ i > Len(custody_events)
     /\ custody_events'[i].event_type = "checkout_offsite"}

\* a step approves a request exactly when it writes one off-site checkout
\* event, for the kit and the proposed custodian of that request
ApprovalWritesItsCheckout ==
  /\ Cardinality(ApprovedInStep) = Cardinality(OffsiteWrittenInStep)
  /\ Cardinality(ApprovedInStep) <= 1
  /\ \A r \in ApprovedInStep : \A i \in OffsiteWrittenInStep :
       /\ custody_events'[i].kit_id = approval_requests[r].kit_id
       /\ custody_events'[i].custodian_id = approval_requests[r].custodian_id
       /\ custody_events'[i].custodian_name = approval_requests[r].custodian_name

\* C38 -- Approvals and off-site checkouts correspond one to one: in every
\* state reached by sequential operations a kit has as many checkout_offsite
\* CustodyEvents as approved ApprovalRequests, no approved request goes back,
\* and each such event carries the proposed custodian of the request whose
\* approval wrote it.
ApprovalsMatchOffsiteCheckouts ==
  /\ [](\A k \in KitIds :
          /\ Cardinality(OffsiteEventsOf(k)) = Cardinality(RequestsOf(k, "approved"))
          /\ \A i \in OffsiteEventsOf(k) : \E r \in RequestsOf(k, "approved") :
               /\ custody_events[i].custodian_id = approval_requests[r].custodian_id
               /\ custody_events[i].custodian_name = approval_requests[r].custodian_name)
  /\ [][ApprovalWritesItsCheckout]_vars

\* an approved request for Alice, asked for by another person, and its event
ApprovalsMatchOffsiteCheckoutsWitness ==
  /\ last = Call("approve", "ok")
  /\ \E k \in KitIds : \E r \in RequestsOf(k, "approved") :
       /\ approval_requests[r].custodian_name # approval_requests[r].requester_name
       /\ \E i \in OffsiteEventsOf(k) :
            custody_events[i].custodian_name = approval_requests[r].custodian_name


KitCallResults(u, code) ==
  [checkout_onprem |->
     {checkout_kit_onprem(code, c.name, u, c.id, NoneDate).result : c \in Custodians},
   transfer |->
     {transfer_kit_custody(code, c.name, u, c.id).result : c \in Custodians},
   report_lost |-> {report_kit_lost(code, u).result},
   report_found |-> {report_kit_found(code, u).result},
   create_offsite_request |->
     {create_offsite_checkout_request(code, c.name, u, c.id).result : c \in Custodians},
   open_maintenance |-> {open_maintenance(code, u).result},
   close_maintenance |->
     {close_maintenance(code, u, m).result : m \in 0..Len(maintenance_events)}]

\* the results of the decisions of user u on request id r
DecideResults(u, r) ==
  {approve_or_deny_offsite_request(r, u, approve, reason).result :
     approve \in BOOLEAN, reason \in DenialReasons}

\* who may call which kit operation
KitCallAllowed(u) ==
  [checkout_onprem |-> u.role \in checkout_allowed_roles,
   transfer |-> u.role \in transfer_allowed_roles,
   report_lost |-> u.role \in lost_found_allowed_roles,
   report_found |-> u.role \in lost_found_allowed_roles,
   create_offsite_request |-> u.verified_adult,
   open_maintenance |-> u.role \in maintenance_allowed_roles,
   close_maintenance |-> u.role \in maintenance_allowed_roles]

\* C40 -- Error precedence: every operation tests the actor's authorization
\* first, then the existence of the kit or request, then its state: an
\* unauthorized actor gets Forbidden for an unknown kit or request and for a
\* kit in any state, an authorized actor gets NotFound for an unknown kit or
\* request, and only a call by an authorized actor on an existing kit or
\* request gets a result that depends on the state.
ErrorPrecedence ==
  \A u \in Users :
    /\ \A code \in KitCodes :
         LET results == KitCallResults(u, code)
             allowed == KitCallAllowed(u) IN
           \A op \in DOMAIN allowed :
             results[op] =
               IF ~allowed[op] THEN {"Forbidden"}
               ELSE IF KitByCode(code) = NoneId THEN {"NotFound"}
               ELSE results[op] \ {"Forbidden", "NotFound"}
    /\ \A r \in 1..(Len(approval_requests) + 1) :
         LET results == DecideResults(u, r) IN
           results =
             IF u.role \notin approval_allowed_roles THEN {"Forbidden"}
             ELSE IF r \notin Indices(approval_requests) THEN {"NotFound"}
             ELSE results \ {"Forbidden", "NotFound"}

\* a parent's checkout was refused as Forbidden while the kit was checked
\* out, a state in which an armorer's checkout gets InvalidState and the
\* parent's checkout of an unknown kit gets Forbidden as well
ErrorPrecedenceWitness ==
  /\ last = Call("checkout_onprem", "Forbidden")
  /\ \E k \in KitIds : kits[k].status = "checked_out"
  /\ \E u \in Users : \E code \in KitCodes :
       /\ u.role = "parent"
       /\ KitByCode(code) = NoneId
       /\ KitCallResults(u, code).checkout_onprem = {"Forbidden"}
  /\ \E u \in Users : \E code \in KitCodes :
       /\ u.role = "armorer"
       /\ KitCallResults(u, code).checkout_onprem = {"InvalidState"}

====
